---- MODULE Spec2Model ----
(***************************************************************************)
(* Backrooms maze: the randomized-DFS room generator of Terrain._Init      *)
(* (grid sizing, carving loop, truncation to the built rooms, openings,    *)
(* owner-rule walls) and the enemy behaviour state machine of              *)
(* EnemyController (Update / _maybeChangeState / damage).                  *)
(***************************************************************************)
EXTENDS Integers, Sequences, FiniteSets, TLC

VARIABLES
    params,        \* the params object handed to new Terrain(scene, params)
    nRooms,        \* this._nRooms (targetRooms)
    rows,          \* grid rows chosen by _Init
    cols,          \* grid columns chosen by _Init
    pc,            \* position inside Terrain._Init: "dfs" (carving loop) or "built"
    gridOpen,      \* gridOpen[idx] : openings of every cell of the full grid
    visited,       \* visited[idx]
    visitOrder,    \* visitOrder : sequence of cells <<i, j>>
    stack,         \* DFS stack : sequence of cells <<i, j>>
    rooms,         \* this._rooms (builtCells) : sequence of [i, j, cx, cz]
    openings,      \* openings map restricted to built cells : key -> {N,S,E,W}
    walls,         \* wall elements added to the group, in the order they are added
    spawn,         \* this.spawn: << >> while null, else <<[x, y, z]>>
    prev           \* the maze of the previous generation with the same params: << >> or <<maze>>

tvars == <<params, nRooms, rows, cols, pc, gridOpen, visited, visitOrder, stack, rooms,
           openings, walls, spawn, prev>>

\* EnemyController (times in tenths of a second, distances in world units)
VARIABLES
    e_obj,             \* this._obj is set (the model has loaded)
    e_attackClip,      \* this._anims.attack is set
    e_attackDuration,  \* this._attackDuration
    e_time,            \* this._time
    e_fsm,             \* [state, stateHold, attackPlaying, attackStartTime, lastAttackEnd]
    e_hp,              \* this._hp
    e_hurtActive,      \* this._hurtActive
    e_hurtEndTime,     \* this._hurtEndTime
    e_invulnEndTime,   \* this._invulnEndTime
    e_dist,            \* distance to the target measured by the last Update
    e_hitNow,          \* onHitPlayer was invoked by the last step
    e_params,          \* the params the enemy was constructed with: [hpMax, invulnDuration, hurtKnockback]
    e_hpMax,           \* this._hpMax
    e_runClip,         \* this._anims.run is set
    e_hurtClip,        \* this._anims.hurt is set
    e_hurtDuration,    \* this._hurtDuration
    e_moveSpeed,       \* moveSpeed chosen by the last Update
    e_dmg,             \* the damage call of the last step, if it was one:
                       \* << >> or <<[amount, knock]>>, knock the knockback added to the position
    e_entry            \* the last entry into a state: [since, hold, retrigger], since being
                       \* the dt accumulated after it, counted up to hold

evars == <<e_obj, e_attackClip, e_attackDuration, e_time, e_fsm, e_hp, e_hurtActive,
           e_hurtEndTime, e_invulnEndTime, e_dist, e_hitNow, e_params, e_hpMax,
           e_runClip, e_hurtClip, e_hurtDuration, e_moveSpeed, e_dmg, e_entry>>

\* BasicCharacterController (the player) and the host's view of it
VARIABLES
    p_hp,              \* this._hp
    p_hpMax,           \* this._hpMax
    hpCalls            \* (hp, max) pairs the last step delivered to an onHpChange callback

hvars == <<p_hp, p_hpMax, hpCalls>>

\* A collision query: _resolve2DCollisions / _resolveAABBCollisions applied to a point
VARIABLES
    c_pc,              \* "idle" (no query), "call" (about to resolve) or "done"
    c_point,           \* nextPos / next : <<x, z>>
    c_colliders,       \* this._colliders : sequence of [minX, maxX, minZ, maxZ]
    c_radius,          \* this._radius
    c_result,          \* the returned <<x, z>>
    c_agent,           \* whose block runs: "none", "player", "enemy", "knockback", "separate"
    c_pos,             \* obj.position before the block : [x, y, z]
    c_yaw,             \* the heading about Y before the block, in AngleUnits
    c_in,              \* what the block reads besides: keys, velocity, dt, target, hook, hitDir
    c_out              \* what the block leaves: [yaw, pos, trace], pos being obj.position

\* A query of the terrain by the host
VARIABLES
    q_pc,              \* "idle" (none yet) or "done"
    q_call,            \* the query and its arguments
    q_result           \* what it returned

qvars == <<q_pc, q_call, q_result>>

\* Terrain._Init of the path generator (js/Terrain.js): the self avoiding path
VARIABLES
    g_pc,              \* "idle" (no generation), "path" (in the loop), "break" or "built"
    g_target,          \* targetLen
    g_path,            \* path : sequence of <<i, j>>; used is the set of its cells
    g_stack,           \* stack : sequence of [i, j, options], options the directions left
    g_warnings,        \* the console.warn messages so far
    g_openings         \* openings once marked : <<i, j>> -> {N,S,E,W}; << >> before

gvars == <<g_pc, g_target, g_path, g_stack, g_warnings, g_openings>>

bvars == <<c_pc, c_point, c_colliders, c_radius, c_result, c_agent, c_pos, c_yaw, c_in, c_out>>

\* ThirdPersonCameraDemo (js/main.js): the frame loop and the end of the game
VARIABLES
    m_won,             \* this._gameWon
    m_lost,            \* this._gameLost
    m_raf,             \* this._rafHandle: 0 or the handle of the last frame requested
    m_pending,         \* the frames requested from the browser and neither run nor cancelled
    m_next,            \* the handle requestAnimationFrame returns next
    m_key,             \* the keydown listener is attached
    m_target,          \* this._controls._target is set (the player's model has loaded)
    m_portal,          \* this._portalSpawned
    m_steps,           \* the number of _Step calls so far
    m_late             \* the number of frames rendered with the game already over

mvars == <<m_won, m_lost, m_raf, m_pending, m_next, m_key, m_target, m_portal, m_steps, m_late>>

cvars == <<bvars, qvars, gvars, mvars>>

vars == <<tvars, evars, hvars, cvars>>

-----------------------------------------------------------------------------
\* Bounds of the model

MaxRooms == 10         \* largest positive params.nRooms tried
MaxSeed == 1           \* seeds 0..MaxSeed offered in params.seed
MaxSeedRooms == 6      \* largest nRooms generated twice for comparison
MaxTime == 14          \* enemy clock stops advancing here (tenths of a second)
MaxDt == 3             \* longest frame (tenths of a second)
ClipDuration == 4      \* duration of the attack clip that loads (tenths of a second)
HurtClipDuration == 3  \* duration of the hurt clip that loads (tenths of a second)
InvulnOn == 3          \* an invulnDuration a host configures (tenths of a second)
KnockOn == 12          \* a hurtKnockback a host configures (world units)
MaxCoord == 12         \* query points have x and z in -MaxCoord..MaxCoord
MaxQueryRooms == 6     \* largest params.nRooms of a queried terrain, besides the default
MaxSteps == 4          \* roomAtGraphDistance is asked for 0..MaxSteps steps
MaxPathRooms == 6      \* largest params.nRooms of a generated path, besides the default
MaxYaw == 100          \* headings tried are -MaxYaw..MaxYaw AngleUnits (more than a full turn)
MaxTurnDt == 6         \* longest frame of a turn alone (tenths of a second)
MaxFrames == 5         \* frames requested from the browser in one game

-----------------------------------------------------------------------------
\* Program constants

DEFAULT_ROOMS == 12
ROOM_SIZE == 300
HALF_ROOM == ROOM_SIZE \div 2

dirKeys == <<"N", "S", "E", "W">>

DIRS == [N |-> [di |-> 0, dj |-> 1, opposite |-> "S"],
         S |-> [di |-> 0, dj |-> -1, opposite |-> "N"],
         E |-> [di |-> 1, dj |-> 0, opposite |-> "W"],
         W |-> [di |-> -1, dj |-> 0, opposite |-> "E"]]

NoOpen == [N |-> FALSE, S |-> FALSE, E |-> FALSE, W |-> FALSE]

-----------------------------------------------------------------------------
\* Terrain.constructor: nRooms = isInteger(params.nRooms) && params.nRooms > 0 ? params.nRooms : 12

\* (p.isInteger is Number.isInteger(params.nRooms): FALSE for a missing nRooms)
ParamNRoomsAboveOne(p) == IF p.isInteger /\ p.nRooms > 1 THEN p.nRooms ELSE DEFAULT_ROOMS

ParamNRooms(p) == IF p.isInteger /\ p.nRooms > 0 THEN p.nRooms ELSE DEFAULT_ROOMS

\* Math.floor(Math.sqrt(n)) for n >= 1
FloorSqrt(n) == CHOOSE r \in 0..n : r * r <= n /\ (r + 1) * (r + 1) > n

Rows(targetRooms) == IF FloorSqrt(targetRooms) < 1 THEN 1 ELSE FloorSqrt(targetRooms)

\* Math.ceil(targetRooms / rows)
Cols(targetRooms) == (targetRooms + Rows(targetRooms) - 1) \div Rows(targetRooms)

idx(i, j) == j * cols + i

inBoundsShort(i, j) == i >= 0 /\ i < cols - 1 /\ j >= 0 /\ j < rows

inBounds(i, j) == i >= 0 /\ i < cols /\ j >= 0 /\ j < rows

\* shuffle: Fisher-Yates, i from length-1 down to 1, j = floor(random * (i + 1)) in 0..i.
\* The set of arrays it can return (positions are 1-based here).
Swap(arr, a, b) == [arr EXCEPT ![a] = arr[b], ![b] = arr[a]]

RECURSIVE ShuffleFrom(_, _)
ShuffleFrom(arr, i) ==
    IF i <= 1 THEN {arr}
    ELSE UNION { ShuffleFrom(Swap(arr, i, j), i - 1) : j \in 1..i }

shuffle(arr) == ShuffleFrom(arr, Len(arr))

\* every array `shuffle(dirKeys.slice())` can return
dirOptions == shuffle(dirKeys)

Min(S) == CHOOSE m \in S : \A x \in S : m <= x
Max(S) == CHOOSE m \in S : \A x \in S : m >= x

-----------------------------------------------------------------------------
\* EnemyController: constants as _SpawnEnemy passes them, else the defaults

radius == 8
targetRadius == 5
aggroRange == 450
attackMargin == 1
attackHysteresis == 10
attackCooldown == 5        \* 0.5 s
minAttackHold == 2         \* 0.2 s
minChaseHold == 2          \* 0.2 s
IDLE_HOLD == 2             \* 0.2 s, set on chase -> idle
ATTACK_DURATION == 6       \* 0.6 s, until the attack clip overrides it
hurtDuration == 5          \* 0.5 s, until the hurt clip overrides it
invulnDuration == 0
hurtKnockback == 0
hpMax == 60
attackDamage == 8
speedWalk == 22
speedRun == 40
NEG_INFINITY == -1000      \* stands for -Infinity: earlier than every time of the model

\* BasicCharacterController._Init: this._hpMax = 100; this._hp = 100
PLAYER_HP == 100

\* main.js _Step: const triggerRadius = 28
triggerRadius == 28

\* BasicCharacterController._Init: this._radius = 5
PLAYER_RADIUS == 5

attackEnterRange == radius + targetRadius + attackMargin
attackExitRange == attackEnterRange + attackHysteresis

PastAggroRange(dist) == dist > aggroRange

\* dist > this._deaggroRange, with _deaggroRange = _aggroRange * 1.25
PastDeaggroRange(dist) == 4 * dist > 5 * aggroRange

PastAttackEnterRange(dist) == dist > attackEnterRange

\* dist > this._attackExitRange
PastAttackExitRange(dist) == dist > attackExitRange

\* n | 0 (ToInt32) for an integer n of the 32-bit range, where it changes nothing
ToInt32(n) == n

\* distances the target callback and the enemy position can produce in a tick
Dists ==
    {attackEnterRange, attackExitRange, attackExitRange + 1,
     aggroRange - 1, aggroRange, aggroRange + 1, (5 * aggroRange) \div 4 + 1}

DamageInputs == {-5, 0, 30}

\* the hp arguments hosts pass to heal and setMaxHp
HpInputs == {-5, 0, 40, 100}

CooldownAlwaysReady(now, lastAttackEnd) == TRUE

\* cooldownReady = (this._time - this._lastAttackEnd) >= this._attackCooldown
CooldownReady(now, lastAttackEnd) == (now - lastAttackEnd) >= attackCooldown

InRangeOnly(dist, cooldownReady) == dist <= attackEnterRange

\* canAttack = (dist <= this._attackEnterRange) && cooldownReady
CanAttack(dist, cooldownReady) == dist <= attackEnterRange /\ cooldownReady

HurtOnly(f, hurt) == hurt

\* the two early returns of _maybeChangeState
Suppressed(f, hurt) == hurt \/ f.stateHold > 0

BeginAttackSilent(f, now) ==
    [f EXCEPT !.state = "attack", !.stateHold = minAttackHold,
              !.attackPlaying = TRUE, !.attackStartTime = now]

BeginAttackNoRestart(f, now) ==
    [f EXCEPT !.state = "attack", !.stateHold = minAttackHold,
              !.attackPlaying = TRUE,
              !.attackStartTime = IF f.state = "attack" THEN @ ELSE now,
              !.hits = Append(@, attackDamage)]

\* _beginAttack; hits collects the arguments of the onHitPlayer calls of the tick
BeginAttack(f, now) ==
    [f EXCEPT !.state = "attack", !.stateHold = minAttackHold,
              !.attackPlaying = TRUE, !.attackStartTime = now,
              !.hits = Append(@, attackDamage)]

\* _maybeChangeState(dist, canAttack); f is the FSM record after this tick's
\* decrement of stateHold, hurt is _hurtActive after this tick's hurt timer
MaybeChangeState(f, now, dist, canAttack, hurt, clip, duration) ==
    IF Suppressed(f, hurt) THEN f
    ELSE IF f.state = "idle" THEN
        IF dist <= aggroRange
        THEN [f EXCEPT !.state = "chase", !.stateHold = minChaseHold]
        ELSE f
    ELSE IF f.state = "chase" THEN
        IF PastDeaggroRange(dist)
        THEN [f EXCEPT !.state = "idle", !.stateHold = IDLE_HOLD]
        ELSE IF canAttack /\ clip THEN BeginAttack(f, now)
        ELSE f
    ELSE
        LET finished == (now - f.attackStartTime) >= duration
            g == IF finished /\ f.attackPlaying
                 THEN [f EXCEPT !.attackPlaying = FALSE, !.lastAttackEnd = now]
                 ELSE f
        IN  IF ~finished THEN g
            ELSE IF PastAttackExitRange(dist)
            THEN [g EXCEPT !.state = "chase", !.stateHold = minChaseHold]
            ELSE IF CooldownReady(now, g.lastAttackEnd) /\ clip
            THEN BeginAttack(g, now)
            ELSE IF PastDeaggroRange(dist)
            THEN [g EXCEPT !.state = "chase", !.stateHold = minChaseHold]
            ELSE g

\* Math.max(0, n | 0)
Amount(n) == IF ToInt32(n) > 0 THEN ToInt32(n) ELSE 0

\* BasicCharacterController.damage(n): the player's [hp, calls] after it
PlayerDamaged(hp, max, n) ==
    IF Amount(n) <= 0 THEN [hp |-> hp, calls |-> << >>]
    ELSE LET h == IF hp - Amount(n) > 0 THEN hp - Amount(n) ELSE 0
         IN  [hp |-> h, calls |-> << <<h, max>> >>]

\* onHitPlayer: (dmg) => this._controls.damage(dmg), once per element of hits
RECURSIVE HitPlayer(_, _, _)
HitPlayer(hp, max, hits) ==
    IF hits = << >> THEN [hp |-> hp, calls |-> << >>]
    ELSE LET first == PlayerDamaged(hp, max, Head(hits))
             rest == HitPlayer(first.hp, max, Tail(hits))
         IN  [hp |-> rest.hp, calls |-> first.calls \o rest.calls]

-----------------------------------------------------------------------------
\* Terrain.constructor up to the start of the carving loop

ParamSet ==
    { [isInteger |-> TRUE, nRooms |-> n, seed |-> 0] : n \in -1..MaxRooms }
        \cup { [isInteger |-> FALSE, nRooms |-> 0, seed |-> 0] }

\* the fields as _Init has them when the carving loop is first entered
Fresh(p) ==
    LET n == ParamNRooms(p)
        cells == 0..(Cols(n) * Rows(n) - 1)
    IN  [nRooms |-> n,
         rows |-> Rows(n),
         cols |-> Cols(n),
         gridOpen |-> [k \in cells |-> NoOpen],
         visited |-> [k \in cells |-> k = 0],
         visitOrder |-> << <<0, 0>> >>,
         stack |-> << <<0, 0>> >>]

TerrainInit(p) ==
    /\ params = p
    /\ nRooms = Fresh(p).nRooms
    /\ rows = Fresh(p).rows
    /\ cols = Fresh(p).cols
    /\ gridOpen = Fresh(p).gridOpen
    /\ visited = Fresh(p).visited
    /\ visitOrder = Fresh(p).visitOrder
    /\ stack = Fresh(p).stack
    /\ pc = "dfs"
    /\ rooms = << >>
    /\ openings = << >>
    /\ walls = << >>
    /\ spawn = << >>
    /\ prev = << >>

\* the params of _SpawnEnemy (invulnDuration and hurtKnockback are not passed)
MainEnemyParams ==
    [hpMax |-> hpMax, invulnDuration |-> invulnDuration, hurtKnockback |-> hurtKnockback]

\* EnemyController.constructor
EnemyConstructed(p) ==
    /\ e_params = p
    /\ e_obj = FALSE
    /\ e_attackClip = FALSE
    /\ e_runClip = FALSE
    /\ e_hurtClip = FALSE
    /\ e_attackDuration = ATTACK_DURATION
    /\ e_hurtDuration = hurtDuration
    /\ e_time = 0
    /\ e_fsm = [state |-> "idle", stateHold |-> 0, attackPlaying |-> FALSE,
                attackStartTime |-> NEG_INFINITY, lastAttackEnd |-> NEG_INFINITY,
                hits |-> << >>]
    /\ e_hpMax = p.hpMax
    /\ e_hp = p.hpMax
    /\ e_hurtActive = FALSE
    /\ e_hurtEndTime = NEG_INFINITY
    /\ e_invulnEndTime = NEG_INFINITY
    /\ e_dist = 0
    /\ e_hitNow = FALSE
    /\ e_moveSpeed = 0
    /\ e_dmg = << >>
    /\ e_entry = [since |-> 0, hold |-> 0, retrigger |-> FALSE]

\* BasicCharacterController._Init (health)
PlayerInit ==
    /\ p_hpMax = PLAYER_HP
    /\ p_hp = PLAYER_HP
    /\ hpCalls = << >>

\* no path is being generated
NoPath ==
    /\ g_pc = "idle"
    /\ g_target = 0
    /\ g_path = << >>
    /\ g_stack = << >>
    /\ g_warnings = << >>
    /\ g_openings = << >>

\* the host has not queried the terrain
Unqueried ==
    /\ q_pc = "idle"
    /\ q_call = << >>
    /\ q_result = << >>

\* no game is running
NoGame ==
    /\ m_won = FALSE
    /\ m_lost = FALSE
    /\ m_raf = 0
    /\ m_pending = {}
    /\ m_next = 1
    /\ m_key = FALSE
    /\ m_target = FALSE
    /\ m_portal = FALSE
    /\ m_steps = 0
    /\ m_late = 0

NoCall == Unqueried /\ NoPath /\ NoGame

\* no movement block is under way
NoMove ==
    /\ c_agent = "none"
    /\ c_pos = [x |-> 0, y |-> 0, z |-> 0]
    /\ c_yaw = 0
    /\ c_in = << >>
    /\ c_out = << >>

\* no collision query is under way
NoBlock ==
    /\ c_pc = "idle"
    /\ c_point = <<0, 0>>
    /\ c_colliders = << >>
    /\ c_radius = 0
    /\ c_result = <<0, 0>>
    /\ NoMove

NoQuery == NoBlock /\ NoCall

\* _LoadPlayer and _SpawnEnemy
EnemyInit == EnemyConstructed(MainEnemyParams) /\ PlayerInit

Init == /\ \E p \in ParamSet : TerrainInit(p)
        /\ EnemyInit
        /\ NoQuery

-----------------------------------------------------------------------------
\* One iteration of `while (stack.length)`

CarveOneWay(g, from, to, d) == [g EXCEPT ![from] = [@ EXCEPT ![d] = TRUE]]

Carve(g, from, to, d) ==
    [g EXCEPT ![from] = [@ EXCEPT ![d] = TRUE],
              ![to] = [@ EXCEPT ![DIRS[d].opposite] = TRUE]]

DfsStep ==
    /\ pc = "dfs"
    /\ stack # << >>
    /\ \E options \in dirOptions :
         LET top == stack[Len(stack)]
             ni(d) == top[1] + DIRS[d].di
             nj(d) == top[2] + DIRS[d].dj
             free(d) == inBounds(ni(d), nj(d)) /\ ~visited[idx(ni(d), nj(d))]
             cand == { k \in 1..Len(options) : free(options[k]) }
         IN  IF cand # {}
             THEN LET d == options[Min(cand)]
                      nIndex == idx(ni(d), nj(d))
                  IN  /\ gridOpen' = Carve(gridOpen, idx(top[1], top[2]), nIndex, d)
                      /\ visited' = [visited EXCEPT ![nIndex] = TRUE]
                      /\ stack' = Append(stack, <<ni(d), nj(d)>>)
                      /\ visitOrder' = Append(visitOrder, <<ni(d), nj(d)>>)
             ELSE /\ stack' = SubSeq(stack, 1, Len(stack) - 1)
                  /\ UNCHANGED <<gridOpen, visited, visitOrder>>
    /\ UNCHANGED <<params, nRooms, rows, cols, pc, rooms, openings, walls, spawn, prev>>
    /\ UNCHANGED <<evars, hvars, cvars>>

-----------------------------------------------------------------------------
\* The rest of _Init once the loop has ended: slice, centring, spawn,
\* openings restricted to built cells, owner-rule walls.

SliceOneMore(order, n) == SubSeq(order, 1, IF n + 1 < Len(order) THEN n + 1 ELSE Len(order))

\* visitOrder.slice(0, targetRooms)
Slice(order, n) == SubSeq(order, 1, IF n < Len(order) THEN n ELSE Len(order))

CellSet(cells) == { cells[k] : k \in 1..Len(cells) }

\* c.cx = (c.i - midI) * ROOM_SIZE with midI = (minI + maxI) / 2
Centre(v, lo, hi) == (2 * v - lo - hi) * HALF_ROOM

Centred(cells) ==
    LET is == { cells[k][1] : k \in 1..Len(cells) }
        js == { cells[k][2] : k \in 1..Len(cells) }
    IN  [k \in 1..Len(cells) |->
            [i |-> cells[k][1], j |-> cells[k][2],
             cx |-> Centre(cells[k][1], Min(is), Max(is)),
             cz |-> Centre(cells[k][2], Min(js), Max(js))]]

SpawnOf(rs) ==
    IF Len(rs) > 0 THEN [x |-> rs[1].cx, y |-> 0, z |-> rs[1].cz]
    ELSE [x |-> 0, y |-> 5, z |-> 0]

UnrestrictedOpenings(cells, g) ==
    [c \in CellSet(cells) |-> [d \in {"N", "S", "E", "W"} |-> g[idx(c[1], c[2])][d]]]

SwappedKeyOpenings(cells, g) ==
    LET builtSet == CellSet(cells)
    IN  [c \in builtSet |->
            [d \in {"N", "S", "E", "W"} |->
                g[idx(c[1], c[2])][d]
                /\ <<c[2] + DIRS[d].dj, c[1] + DIRS[d].di>> \in builtSet]]

\* openings[c][d] is set iff gridOpen has d at c and the neighbour is built
RestrictOpenings(cells, g) ==
    LET builtSet == CellSet(cells)
    IN  [c \in builtSet |->
            [d \in {"N", "S", "E", "W"} |->
                g[idx(c[1], c[2])][d]
                /\ <<c[1] + DIRS[d].di, c[2] + DIRS[d].dj>> \in builtSet]]

hasNeighbor(builtSet, i, j) == <<i, j>> \in builtSet

\* A wall element: where it stands, its orientation, whether it is a doorway,
\* and the room and side that emitted it.
NorthWall(c, o) ==
    [x |-> c.cx, z |-> c.cz + HALF_ROOM, horizontal |-> TRUE,
     door |-> o[<<c.i, c.j>>].N, owner |-> <<c.i, c.j>>, side |-> "N"]

WestWall(c, o, builtSet) ==
    [x |-> c.cx - HALF_ROOM, z |-> c.cz, horizontal |-> FALSE,
     door |-> IF hasNeighbor(builtSet, c.i - 1, c.j) THEN o[<<c.i, c.j>>].W ELSE FALSE,
     owner |-> <<c.i, c.j>>, side |-> "W"]

SouthWall(c) ==
    [x |-> c.cx, z |-> c.cz - HALF_ROOM, horizontal |-> TRUE,
     door |-> FALSE, owner |-> <<c.i, c.j>>, side |-> "S"]

EastWall(c) ==
    [x |-> c.cx + HALF_ROOM, z |-> c.cz, horizontal |-> FALSE,
     door |-> FALSE, owner |-> <<c.i, c.j>>, side |-> "E"]

\* first loop: every room emits its North wall, then its West wall
RECURSIVE OwnerWalls(_, _, _, _)
OwnerWalls(rs, o, builtSet, k) ==
    IF k > Len(rs) THEN << >>
    ELSE <<NorthWall(rs[k], o), WestWall(rs[k], o, builtSet)>>
             \o OwnerWalls(rs, o, builtSet, k + 1)

BoundaryWallsAlways(c, builtSet) == <<SouthWall(c), EastWall(c)>>

BoundaryWallsInverted(c, builtSet) ==
    (IF hasNeighbor(builtSet, c.i, c.j - 1) THEN <<SouthWall(c)>> ELSE << >>)
        \o (IF hasNeighbor(builtSet, c.i + 1, c.j) THEN <<EastWall(c)>> ELSE << >>)

\* second loop: close outer South and East boundaries
BoundaryWallsOf(c, builtSet) ==
    (IF ~hasNeighbor(builtSet, c.i, c.j - 1) THEN <<SouthWall(c)>> ELSE << >>)
        \o (IF ~hasNeighbor(builtSet, c.i + 1, c.j) THEN <<EastWall(c)>> ELSE << >>)

RECURSIVE BoundaryWalls(_, _, _)
BoundaryWalls(rs, builtSet, k) ==
    IF k > Len(rs) THEN << >>
    ELSE BoundaryWallsOf(rs[k], builtSet) \o BoundaryWalls(rs, builtSet, k + 1)

BuildWalls(rs, o, builtSet) ==
    OwnerWalls(rs, o, builtSet, 1) \o BoundaryWalls(rs, builtSet, 1)

Build ==
    /\ pc = "dfs"
    /\ stack = << >>
    /\ LET builtCells == Slice(visitOrder, nRooms)
           rs == Centred(builtCells)
           o == RestrictOpenings(builtCells, gridOpen)
       IN  /\ rooms' = rs
           /\ spawn' = <<SpawnOf(rs)>>
           /\ openings' = o
           /\ walls' = BuildWalls(rs, o, CellSet(builtCells))
    /\ pc' = "built"
    /\ UNCHANGED <<params, nRooms, rows, cols, gridOpen, visited, visitOrder, stack, prev>>
    /\ UNCHANGED <<evars, hvars, cvars>>

\* A further `new Terrain(scene, params)` with the same params (the Restart
\* button reloads the page); the finished maze is remembered for comparison.
Regenerate ==
    /\ pc = "built"
    /\ prev' = << [visitOrder |-> visitOrder, rooms |-> rooms, openings |-> openings] >>
    /\ nRooms' = Fresh(params).nRooms
    /\ rows' = Fresh(params).rows
    /\ cols' = Fresh(params).cols
    /\ gridOpen' = Fresh(params).gridOpen
    /\ visited' = Fresh(params).visited
    /\ visitOrder' = Fresh(params).visitOrder
    /\ stack' = Fresh(params).stack
    /\ pc' = "dfs"
    /\ rooms' = << >>
    /\ openings' = << >>
    /\ walls' = << >>
    /\ spawn' = << >>
    /\ UNCHANGED params
    /\ UNCHANGED <<evars, hvars, cvars>>

Next == DfsStep \/ Build

Spec == Init /\ [][Next]_vars

\* The loop and the code after it run to completion once _Init is entered.
FairSpec == Spec /\ WF_vars(DfsStep) /\ WF_vars(Build)

\* Generation repeated with the same params, the seed among them.
SeedParamSet ==
    { [isInteger |-> TRUE, nRooms |-> n, seed |-> sd] : n \in 1..MaxSeedRooms, sd \in 0..MaxSeed }

SeedInit == /\ \E p \in SeedParamSet : TerrainInit(p)
            /\ EnemyInit
            /\ NoQuery

SeedNext == DfsStep \/ Build \/ Regenerate

SeedSpec == SeedInit /\ [][SeedNext]_vars /\ WF_vars(DfsStep) /\ WF_vars(Build)

-----------------------------------------------------------------------------
\* EnemyController: the loader callbacks, Update(dt), damage(n), heal(n), setMaxHp(n)

\* loader.load(modelFile, ...) callback: this._obj is set
LoadModel ==
    /\ pc = "built"
    /\ ~e_obj
    /\ e_obj' = TRUE
    /\ e_hitNow' = FALSE
    /\ e_dmg' = << >>
    /\ hpCalls' = << >>
    /\ UNCHANGED <<e_attackClip, e_attackDuration, e_time, e_fsm, e_hp, e_hurtActive,
                   e_hurtEndTime, e_invulnEndTime, e_dist, e_params, e_hpMax, e_runClip,
                   e_hurtClip, e_hurtDuration, e_moveSpeed, e_entry>>
    /\ UNCHANGED <<p_hp, p_hpMax>>
    /\ UNCHANGED <<tvars, cvars>>

\* onAnim('attack', a): the clip is registered and its duration taken
LoadAttackClip ==
    /\ e_obj
    /\ ~e_attackClip
    /\ e_attackClip' = TRUE
    /\ e_attackDuration' = ClipDuration
    /\ e_hitNow' = FALSE
    /\ e_dmg' = << >>
    /\ hpCalls' = << >>
    /\ UNCHANGED <<e_obj, e_time, e_fsm, e_hp, e_hurtActive, e_hurtEndTime,
                   e_invulnEndTime, e_dist, e_params, e_hpMax, e_runClip, e_hurtClip,
                   e_hurtDuration, e_moveSpeed, e_entry>>
    /\ UNCHANGED <<p_hp, p_hpMax>>
    /\ UNCHANGED <<tvars, cvars>>

\* onAnim('run', a)
LoadRunClip ==
    /\ e_obj
    /\ ~e_runClip
    /\ e_runClip' = TRUE
    /\ e_hitNow' = FALSE
    /\ e_dmg' = << >>
    /\ hpCalls' = << >>
    /\ UNCHANGED <<e_obj, e_attackClip, e_attackDuration, e_time, e_fsm, e_hp,
                   e_hurtActive, e_hurtEndTime, e_invulnEndTime, e_dist, e_params, e_hpMax,
                   e_hurtClip, e_hurtDuration, e_moveSpeed, e_entry>>
    /\ UNCHANGED <<p_hp, p_hpMax>>
    /\ UNCHANGED <<tvars, cvars>>

\* onAnim('hurt', a): the clip is registered and its duration taken
LoadHurtClip ==
    /\ e_obj
    /\ ~e_hurtClip
    /\ e_hurtClip' = TRUE
    /\ e_hurtDuration' = HurtClipDuration
    /\ e_hitNow' = FALSE
    /\ e_dmg' = << >>
    /\ hpCalls' = << >>
    /\ UNCHANGED <<e_obj, e_attackClip, e_attackDuration, e_time, e_fsm, e_hp,
                   e_hurtActive, e_hurtEndTime, e_invulnEndTime, e_dist, e_params, e_hpMax,
                   e_runClip, e_moveSpeed, e_entry>>
    /\ UNCHANGED <<p_hp, p_hpMax>>
    /\ UNCHANGED <<tvars, cvars>>

SpeedAlways(fsmState, hurt, run) == IF run THEN speedRun ELSE speedWalk

\* moveSpeed of Update
MoveSpeed(fsmState, hurt, run) ==
    IF hurt THEN 0
    ELSE IF fsmState = "chase" THEN (IF run THEN speedRun ELSE speedWalk)
    ELSE 0

\* what Update(dt) computes from the fields as they stand; dist is
\* |targetPos - position| in the XZ plane
Updated(dt, dist) ==
    LET now == e_time + dt
        held == [e_fsm EXCEPT !.stateHold = IF @ > 0 THEN @ - dt ELSE @,
                              !.hits = << >>]
        hurt == IF e_hurtActive /\ now >= e_hurtEndTime THEN FALSE ELSE e_hurtActive
        cooldownReady == CooldownReady(now, held.lastAttackEnd)
        canAttack == CanAttack(dist, cooldownReady)
        f == MaybeChangeState(held, now, dist, canAttack, hurt, e_attackClip,
                              e_attackDuration)
        hit == HitPlayer(p_hp, p_hpMax, f.hits)
    IN  [time |-> now,
         hurtActive |-> hurt,
         fsm |-> f,
         hitNow |-> (f.hits # << >>),
         moveSpeed |-> MoveSpeed(f.state, hurt, e_runClip),
         entry |-> IF f.state # held.state \/ f.hits # << >>
                   THEN [since |-> 0, hold |-> f.stateHold,
                         retrigger |-> held.state = "attack"]
                   ELSE [e_entry EXCEPT
                            !.since = IF @ + dt < e_entry.hold THEN @ + dt
                                      ELSE e_entry.hold],
         hp |-> hit.hp,
         calls |-> hit.calls]

\* Update(dt)
Update(dt, dist) ==
    /\ e_obj
    /\ e_time + dt <= MaxTime
    /\ LET u == Updated(dt, dist)
       IN  /\ e_time' = u.time
           /\ e_hurtActive' = u.hurtActive
           /\ e_fsm' = u.fsm
           /\ e_hitNow' = u.hitNow
           /\ e_dist' = dist
           /\ e_moveSpeed' = u.moveSpeed
           /\ e_entry' = u.entry
           /\ p_hp' = u.hp
           /\ hpCalls' = u.calls
    /\ e_dmg' = << >>
    /\ UNCHANGED <<e_obj, e_attackClip, e_attackDuration, e_hp, e_hurtEndTime,
                   e_invulnEndTime, e_params, e_hpMax, e_runClip, e_hurtClip,
                   e_hurtDuration>>
    /\ UNCHANGED p_hpMax
    /\ UNCHANGED <<tvars, cvars>>

EnemyUpdate == \E dt \in 1..MaxDt : \E dist \in Dists : Update(dt, dist)

\* this._time + duration: the end of a window opened now
WindowEnd(now, duration) == now + duration

NeverInvulnerable(now, endTime) == FALSE

\* now < this._invulnEndTime
Invulnerable(now, endTime) == now < endTime

\* damage(n, hitDir) followed by _triggerHurt; dirOk: the knockback direction
\* (hitDir, else from the target to the enemy) is not the zero vector
Damage(n, dirOk) ==
    /\ pc = "built"
    /\ IF Invulnerable(e_time, e_invulnEndTime) \/ Amount(n) <= 0
       THEN /\ UNCHANGED <<e_fsm, e_hp, e_hurtActive, e_hurtEndTime, e_invulnEndTime>>
            /\ e_dmg' = << [amount |-> Amount(n), knock |-> 0] >>
       ELSE /\ e_hp' = (IF e_hp - Amount(n) > 0 THEN e_hp - Amount(n) ELSE 0)
            /\ e_fsm' = [e_fsm EXCEPT !.attackPlaying = FALSE, !.lastAttackEnd = e_time]
            /\ e_hurtActive' = TRUE
            /\ e_hurtEndTime' = WindowEnd(e_time, e_hurtDuration)
            /\ e_invulnEndTime' = WindowEnd(e_time, e_params.invulnDuration)
            /\ e_dmg' = << [amount |-> Amount(n),
                            knock |-> IF e_params.hurtKnockback > 0 /\ e_obj /\ dirOk
                                      THEN e_params.hurtKnockback ELSE 0] >>
    /\ e_hitNow' = FALSE
    /\ hpCalls' = << >>
    /\ UNCHANGED <<e_obj, e_attackClip, e_attackDuration, e_time, e_dist, e_params,
                   e_hpMax, e_runClip, e_hurtClip, e_hurtDuration, e_moveSpeed, e_entry>>
    /\ UNCHANGED <<p_hp, p_hpMax>>
    /\ UNCHANGED <<tvars, cvars>>

EnemyDamage == \E n \in DamageInputs : \E dirOk \in BOOLEAN : Damage(n, dirOk)

\* heal(n)
Heal(n) ==
    /\ pc = "built"
    /\ e_hp' = (IF e_hp + Amount(n) < e_hpMax THEN e_hp + Amount(n) ELSE e_hpMax)
    /\ e_hitNow' = FALSE
    /\ e_dmg' = << >>
    /\ hpCalls' = << >>
    /\ UNCHANGED <<e_obj, e_attackClip, e_attackDuration, e_time, e_fsm, e_hurtActive,
                   e_hurtEndTime, e_invulnEndTime, e_dist, e_params, e_hpMax, e_runClip,
                   e_hurtClip, e_hurtDuration, e_moveSpeed, e_entry>>
    /\ UNCHANGED <<p_hp, p_hpMax>>
    /\ UNCHANGED <<tvars, cvars>>

EnemyHeal == \E n \in HpInputs : Heal(n)

\* Math.max(1, n | 0)
MaxHpOf(n) == IF ToInt32(n) > 1 THEN ToInt32(n) ELSE 1

\* setMaxHp(n)
SetMaxHp(n) ==
    /\ pc = "built"
    /\ e_hpMax' = MaxHpOf(n)
    /\ e_hp' = (IF e_hp < MaxHpOf(n) THEN e_hp ELSE MaxHpOf(n))
    /\ e_hitNow' = FALSE
    /\ e_dmg' = << >>
    /\ hpCalls' = << >>
    /\ UNCHANGED <<e_obj, e_attackClip, e_attackDuration, e_time, e_fsm, e_hurtActive,
                   e_hurtEndTime, e_invulnEndTime, e_dist, e_params, e_runClip,
                   e_hurtClip, e_hurtDuration, e_moveSpeed, e_entry>>
    /\ UNCHANGED <<p_hp, p_hpMax>>
    /\ UNCHANGED <<tvars, cvars>>

EnemySetMaxHp == \E n \in HpInputs : SetMaxHp(n)

\* BasicCharacterController.damage(n), called by the host
PlayerDamage(n) ==
    /\ pc = "built"
    /\ p_hp' = PlayerDamaged(p_hp, p_hpMax, n).hp
    /\ hpCalls' = PlayerDamaged(p_hp, p_hpMax, n).calls
    /\ e_hitNow' = FALSE
    /\ e_dmg' = << >>
    /\ UNCHANGED <<e_obj, e_attackClip, e_attackDuration, e_time, e_fsm, e_hp,
                   e_hurtActive, e_hurtEndTime, e_invulnEndTime, e_dist, e_params, e_hpMax,
                   e_runClip, e_hurtClip, e_hurtDuration, e_moveSpeed, e_entry>>
    /\ UNCHANGED p_hpMax
    /\ UNCHANGED <<tvars, cvars>>

PlayerDamageCall == \E n \in DamageInputs : PlayerDamage(n)

\* BasicCharacterController.heal(n)
PlayerHeal(n) ==
    /\ pc = "built"
    /\ LET h == IF p_hp + Amount(n) < p_hpMax THEN p_hp + Amount(n) ELSE p_hpMax
       IN  /\ p_hp' = h
           /\ hpCalls' = << <<h, p_hpMax>> >>
    /\ e_hitNow' = FALSE
    /\ e_dmg' = << >>
    /\ UNCHANGED <<e_obj, e_attackClip, e_attackDuration, e_time, e_fsm, e_hp,
                   e_hurtActive, e_hurtEndTime, e_invulnEndTime, e_dist, e_params, e_hpMax,
                   e_runClip, e_hurtClip, e_hurtDuration, e_moveSpeed, e_entry>>
    /\ UNCHANGED p_hpMax
    /\ UNCHANGED <<tvars, cvars>>

PlayerHealCall == \E n \in HpInputs : PlayerHeal(n)

\* BasicCharacterController.setMaxHp(n)
PlayerSetMaxHp(n) ==
    /\ pc = "built"
    /\ LET h == IF p_hp < MaxHpOf(n) THEN p_hp ELSE MaxHpOf(n)
       IN  /\ p_hpMax' = MaxHpOf(n)
           /\ p_hp' = h
           /\ hpCalls' = << <<h, MaxHpOf(n)>> >>
    /\ e_hitNow' = FALSE
    /\ e_dmg' = << >>
    /\ UNCHANGED <<e_obj, e_attackClip, e_attackDuration, e_time, e_fsm, e_hp,
                   e_hurtActive, e_hurtEndTime, e_invulnEndTime, e_dist, e_params, e_hpMax,
                   e_runClip, e_hurtClip, e_hurtDuration, e_moveSpeed, e_entry>>
    /\ UNCHANGED <<tvars, cvars>>

PlayerSetMaxHpCall == \E n \in HpInputs : PlayerSetMaxHp(n)

\* The enemy in a one-room level: Terrain is constructed, then the enemy is
\* spawned, its assets load and the frame loop ticks it.
EnemyParams == [isInteger |-> TRUE, nRooms |-> 1, seed |-> 0]

\* an enemy constructed with an invulnerability window and a knockback
HostEnemyParams ==
    [hpMax |-> hpMax, invulnDuration |-> InvulnOn, hurtKnockback |-> KnockOn]

EnemySpecInit == TerrainInit(EnemyParams) /\ EnemyInit /\ NoQuery

\* attackFile is given; no run or hurt clip loads
EnemyNext == DfsStep \/ Build \/ LoadModel \/ LoadAttackClip \/ EnemyUpdate \/ EnemyDamage

EnemySpec == EnemySpecInit /\ [][EnemyNext]_vars

\* The enemy taking damage, with an invulnerability window and knockback: no
\* attackFile is given, the run and hurt clips load.
HurtSpecInit ==
    /\ TerrainInit(EnemyParams)
    /\ EnemyConstructed(HostEnemyParams)
    /\ PlayerInit
    /\ NoQuery

HurtNext ==
    \/ DfsStep \/ Build
    \/ LoadModel \/ LoadRunClip \/ LoadHurtClip
    \/ EnemyUpdate \/ EnemyDamage

HurtSpec == HurtSpecInit /\ [][HurtNext]_vars

\* The health interface of both agents, driven by a host; the enemy is
\* constructed with any hpMax.
HpMaxParams == {-5, 0, 1, hpMax}

HpSpecInit ==
    /\ TerrainInit(EnemyParams)
    /\ \E h \in HpMaxParams : EnemyConstructed([MainEnemyParams EXCEPT !.hpMax = h])
    /\ PlayerInit
    /\ NoQuery

HpNext ==
    \/ DfsStep \/ Build
    \/ EnemyDamage \/ EnemyHeal \/ EnemySetMaxHp
    \/ PlayerDamageCall \/ PlayerHealCall \/ PlayerSetMaxHpCall

HpSpec == HpSpecInit /\ [][HpNext]_vars

\* A timestamp read against a clock origin moved forward by s: Update and
\* damage compare timestamps only through differences with this._time, none
\* against more than MaxTime, so a timestamp MaxTime or more in the past is
\* kept as one exactly MaxTime in the past; -Infinity stays what it is
Rebased(t, s) == IF t < 0 THEN t ELSE IF t - s > 0 THEN t - s ELSE 0

\* Update(dt) on every frame without end, the clock origin following
\* this._time once it passes MaxTime; while the enemy is in attack the target
\* stays within attackExitRange
LiveUpdate(dt, dist) ==
    /\ e_obj
    /\ e_fsm.state = "attack" => ~PastAttackExitRange(dist)
    /\ \E u \in {Updated(dt, dist)} :
       \E s \in {IF u.time > MaxTime THEN u.time - MaxTime ELSE 0} :
           /\ e_time' = u.time - s
           /\ e_hurtActive' = u.hurtActive
           /\ e_fsm' = [u.fsm EXCEPT !.attackStartTime = Rebased(@, s),
                                     !.lastAttackEnd = Rebased(@, s)]
           /\ e_hurtEndTime' = Rebased(e_hurtEndTime, s)
           /\ e_invulnEndTime' = Rebased(e_invulnEndTime, s)
           /\ e_hitNow' = u.hitNow
           /\ e_dist' = dist
           /\ e_moveSpeed' = u.moveSpeed
           /\ e_entry' = u.entry
           /\ p_hp' = u.hp
           /\ hpCalls' = u.calls
    /\ e_dmg' = << >>
    /\ UNCHANGED <<e_obj, e_attackClip, e_attackDuration, e_hp, e_params, e_hpMax,
                   e_runClip, e_hurtClip, e_hurtDuration>>
    /\ UNCHANGED p_hpMax
    /\ UNCHANGED <<tvars, cvars>>

\* distances on either side of attackExitRange
LiveDists == {attackEnterRange, attackExitRange, attackExitRange + 1}

LiveTick == \E dt \in 1..MaxDt : \E dist \in LiveDists : LiveUpdate(dt, dist)

\* damage(n) by a host that hits the enemy while it has HP left, with a hit
\* that takes all of it: the enemy is damaged at any time, and once
LiveDamage == e_hp > 0 /\ Damage(hpMax, TRUE)

LiveNext ==
    \/ DfsStep \/ Build
    \/ LoadModel \/ LoadAttackClip
    \/ LiveTick \/ LiveDamage

\* The enemy of main.js ticked on every frame for ever: the frame loop calls
\* Update once per frame as long as the game runs
LiveSpec == EnemySpecInit /\ [][LiveNext]_vars /\ WF_vars(LiveTick)

\* A number outside the 32-bit range, written high * 2^16 + low with
\* 0 <= low < 2^16
Wide(high, low) == [high |-> high, low |-> low]

\* 2^31, 2^31 + 7, 2^32 - 1, 2^32 + 30, 2^32 + 2^16
WideInputs ==
    {Wide(32768, 0), Wide(32768, 7), Wide(65535, 65535), Wide(65536, 30), Wide(65537, 0)}

\* n | 0 of such a number: its low 32 bits read as a signed integer
ToInt32Wide(w) ==
    LET h == w.high % 65536
    IN  (IF h >= 32768 THEN h - 65536 ELSE h) * 65536 + w.low

\* damage(n) with n outside the 32-bit range: n | 0 is all the call reads of n
EnemyDamageWide ==
    \E w \in WideInputs : \E dirOk \in BOOLEAN : Damage(ToInt32Wide(w), dirOk)

PlayerDamageWide == \E w \in WideInputs : PlayerDamage(ToInt32Wide(w))

\* The damage and heal calls of both agents with amounts of any size, the
\* enemy constructed as main.js constructs it
WideNext ==
    \/ DfsStep \/ Build
    \/ EnemyDamage \/ EnemyHeal \/ EnemyDamageWide
    \/ PlayerDamageCall \/ PlayerHealCall \/ PlayerDamageWide

WideSpec == EnemySpecInit /\ [][WideNext]_vars

-----------------------------------------------------------------------------
\* Collision push-out: _resolve2DCollisions (player) and _resolveAABBCollisions
\* (enemy) are the same code, with this._radius 5 and 8

Abs(v) == IF v < 0 THEN -v ELSE v

Max4(a, b, c, d) ==
    LET m == IF a > b THEN a ELSE b
        n == IF c > d THEN c ELSE d
    IN  IF m > n THEN m ELSE n

\* Math.min(pushLeft, pushRight, pushDown, pushUp)
Min4(a, b, c, d) ==
    LET m == IF a < b THEN a ELSE b
        n == IF c < d THEN c ELSE d
    IN  IF m < n THEN m ELSE n

\* the body of the loop over the colliders, for one rect
ResolveRect(pt, rect, r) ==
    LET x == pt[1]
        z == pt[2]
        exmin == rect.minX - r
        exmax == rect.maxX + r
        ezmin == rect.minZ - r
        ezmax == rect.maxZ + r
        pushLeft == Abs(x - exmin)
        pushRight == Abs(exmax - x)
        pushDown == Abs(z - ezmin)
        pushUp == Abs(ezmax - z)
        minPush == Min4(pushLeft, pushRight, pushDown, pushUp)
    IN  IF x >= exmin /\ x <= exmax /\ z >= ezmin /\ z <= ezmax
        THEN IF minPush = pushLeft THEN <<exmin, z>>
             ELSE IF minPush = pushRight THEN <<exmax, z>>
             ELSE IF minPush = pushDown THEN <<x, ezmin>>
             ELSE <<x, ezmax>>
        ELSE pt

\* for (const rect of this._colliders) ..., from the k-th rect on
RECURSIVE ResolveCollisions(_, _, _, _)
ResolveCollisions(pt, colliders, r, k) ==
    IF k > Len(colliders) THEN pt
    ELSE ResolveCollisions(ResolveRect(pt, colliders[k], r), colliders, r, k + 1)

\* the rectangles tried: a wall slab, a square pillar, a single point
QueryRects ==
    { [minX |-> -2, maxX |-> 2, minZ |-> -1, maxZ |-> 1],
      [minX |-> 0, maxX |-> 3, minZ |-> 0, maxZ |-> 3],
      [minX |-> 1, maxX |-> 1, minZ |-> -1, maxZ |-> -1] }

QueryPoints == (-MaxCoord..MaxCoord) \X (-MaxCoord..MaxCoord)

\* a push-out query on one rectangle, for the player's and the enemy's radius
PushInit ==
    /\ TerrainInit(EnemyParams)
    /\ EnemyInit
    /\ c_pc = "call"
    /\ c_point \in QueryPoints
    /\ \E rect \in QueryRects : c_colliders = <<rect>>
    /\ c_radius \in {PLAYER_RADIUS, radius}
    /\ c_result = c_point
    /\ NoMove
    /\ NoCall

Resolve ==
    /\ c_pc = "call"
    /\ c_result' = ResolveCollisions(c_point, c_colliders, c_radius, 1)
    /\ c_pc' = "done"
    /\ UNCHANGED <<c_point, c_colliders, c_radius, c_agent, c_pos, c_yaw, c_in, c_out, qvars, gvars, mvars>>
    /\ UNCHANGED <<tvars, evars, hvars>>

PushNext == Resolve

PushSpec == PushInit /\ [][PushNext]_vars

-----------------------------------------------------------------------------
\* The movement blocks: the player's Update, the enemy's Update (kinematic
\* branch) and the knockback of the enemy's damage, each as a function of the
\* position, the heading and what the block reads.  Positions are in world
\* units, angles in AngleUnits of pi/40, dt in tenths of a second.

FULL_TURN == 80        \* 2 pi
HALF_TURN == 40        \* pi
turnSpeed == 7         \* Math.PI * 1.75 rad/s, in AngleUnits per tenth of a second
PLAYER_TURN == 4       \* 4.0 * Math.PI * this._acceleration.y rad/s, likewise
SEPARATE_EPS == 0      \* d > 1e-6 on whole world units: d > 0

Vec(x, y, z) == [x |-> x, y |-> y, z |-> z]

\* Math.atan2(Math.sin(delta), Math.cos(delta)): at an odd multiple of pi the
\* rounded sine keeps the sign of delta
Wrap(delta) ==
    LET w == delta % FULL_TURN
    IN  IF w > HALF_TURN THEN w - FULL_TURN
        ELSE IF w = HALF_TURN /\ delta < 0 THEN -HALF_TURN
        ELSE w

\* THREE.MathUtils.clamp(v, lo, hi)
Clamp(v, lo, hi) == Max({lo, Min({hi, v})})

\* Math.atan2(dir.x, dir.z), for the directions along the axes and the diagonals
Atan2(x, z) ==
    CASE x = 0 /\ z > 0 -> 0
      [] x > 0 /\ z = x -> 10
      [] x > 0 /\ z = 0 -> 20
      [] x > 0 /\ z = -x -> 30
      [] x = 0 /\ z < 0 -> 40
      [] x < 0 /\ z = x -> -30
      [] x < 0 /\ z = 0 -> -20
      [] x < 0 /\ z = -x -> -10

TurnNoClamp(yaw, desiredYaw, dt) == yaw + Wrap(desiredYaw - yaw)

\* _turnTowards: the new rotation.y
TurnTowards(yaw, desiredYaw, dt) ==
    LET delta == Wrap(desiredYaw - yaw)
        maxStep == turnSpeed * dt
    IN  yaw + Clamp(delta, -maxStep, maxStep)

\* new THREE.Vector3(0, 0, 1) turned by yaw about Y, for the headings along the axes
Forward(yaw) ==
    CASE yaw % FULL_TURN = 0 -> <<0, 1>>
      [] yaw % FULL_TURN = 20 -> <<1, 0>>
      [] yaw % FULL_TURN = 40 -> <<0, -1>>
      [] yaw % FULL_TURN = 60 -> <<-1, 0>>

ResolveNone(pt, colliders, r) == pt

\* one call of _resolve2DCollisions / _resolveAABBCollisions
ResolveOnce(pt, colliders, r) == ResolveCollisions(pt, colliders, r, 1)

\* next = resolve(next); next = resolve(next);
ResolveTwice(pt, colliders, r) ==
    ResolveCollisions(ResolveCollisions(pt, colliders, r, 1), colliders, r, 1)

\* delta.multiplyScalar(1 / d) scaled by minDist, one coordinate: exact when d
\* is whole and divides, cut to a whole number otherwise
Scaled(c, d, minDist) ==
    IF c >= 0 THEN (c * minDist) \div d ELSE -(((-c) * minDist) \div d)

SeparateAlways(pos, targetPos, minDist, eps) ==
    LET dx == pos.x - targetPos.x
        dz == pos.z - targetPos.z
        d2 == dx * dx + dz * dz
        d == FloorSqrt(d2)
    IN  IF d2 > eps * eps
        THEN Vec(targetPos.x + Scaled(dx, d, minDist), targetPos.y,
                 targetPos.z + Scaled(dz, d, minDist))
        ELSE pos

\* _separateFromTarget, the threshold 1e-6 being eps in the unit of the coordinates
SeparateFromTarget(pos, targetPos, minDist, eps) ==
    LET dx == pos.x - targetPos.x
        dz == pos.z - targetPos.z
        d2 == dx * dx + dz * dz
        d == FloorSqrt(d2)
    IN  IF d2 < minDist * minDist /\ d2 > eps * eps
        THEN Vec(targetPos.x + Scaled(dx, d, minDist), targetPos.y,
                 targetPos.z + Scaled(dz, d, minDist))
        ELSE pos

\* the ground-height hooks tried: the terrain's (constant 0), a raised floor, a ramp
HeightAt(hook, x, z) ==
    CASE hook = "flat" -> 0
      [] hook = "raised" -> 3
      [] hook = "ramp" -> x

\* groundY + (obj.position.y - groundY)
GroundY(hook, x, y, z) == HeightAt(hook, x, z) + (y - HeightAt(hook, x, z))

\* The statements of a block in the order of the code; each is applied to the
\* working record w = [yaw, pos, next, integrated, resolved, trace], where pos
\* is obj.position, next the local of the same name, and trace the statements
\* applied so far.

\* CharacterController.js Update: rotation, integration, ground height, two
\* sweeps, obj.position.copy
PlayerStages == <<"turn", "integrate", "ground", "resolve", "resolve", "commit">>

\* Camera.js Update, kinematic branch: _turnTowards, step, next.y = 0, two
\* sweeps, _separateFromTarget, obj.position.copy
EnemyStagesSeparateFirst ==
    <<"turn", "integrate", "flatten", "separate", "resolve", "resolve", "commit">>

EnemyStages == <<"turn", "integrate", "flatten", "resolve", "resolve", "separate", "commit">>

\* Camera.js damage, the knockback: addScaledVector, one sweep, obj.position.copy
KnockbackStages == <<"push", "resolve", "commit">>

\* the direction of the knockback times its length: hitDir normalized, else
\* the direction from the target to the enemy, else nothing
KnockVector(pos, in) ==
    LET h == in.hitDir
        dx == IF h # << >> THEN h[1] ELSE pos.x - in.target.x
        dy == IF h # << >> THEN h[2] ELSE 0
        dz == IF h # << >> THEN h[3] ELSE pos.z - in.target.z
        l2 == dx * dx + dy * dy + dz * dz
        l == FloorSqrt(l2)
    IN  IF l2 > 0
        THEN <<Scaled(dx, l, in.knock), Scaled(dy, l, in.knock), Scaled(dz, l, in.knock)>>
        ELSE <<0, 0, 0>>

\* the player's rotation by the keys, the enemy's _turnTowards(toTarget, dt)
TurnedYaw(agent, w, in) ==
    IF agent = "player"
    THEN w.yaw + (IF in.left THEN PLAYER_TURN * in.dt ELSE 0)
               - (IF in.right THEN PLAYER_TURN * in.dt ELSE 0)
    ELSE LET tx == in.target.x - w.pos.x
             tz == in.target.z - w.pos.z
             desiredYaw == IF tx = 0 /\ tz = 0 THEN Atan2(0, 1) ELSE Atan2(tx, tz)
         IN  TurnTowards(w.yaw, desiredYaw, in.dt)

\* forward times v.z * timeInSeconds (player), times moveSpeed * dt (enemy)
StepLength(agent, in) ==
    IF agent = "player" THEN in.advance ELSE (in.moveSpeed * in.dt) \div 10

ApplyStage(stage, agent, w, in, colliders, r) ==
    LET t == Append(w.trace, stage)
    IN  CASE stage = "turn" ->
                [w EXCEPT !.yaw = TurnedYaw(agent, w, in), !.trace = t]
          [] stage = "integrate" ->
                LET f == Forward(w.yaw)
                    n == Vec(w.pos.x + f[1] * StepLength(agent, in), w.pos.y,
                             w.pos.z + f[2] * StepLength(agent, in))
                IN  [w EXCEPT !.next = n, !.integrated = n, !.trace = t]
          [] stage = "push" ->
                LET k == KnockVector(w.pos, in)
                    n == Vec(w.pos.x + k[1], w.pos.y + k[2], w.pos.z + k[3])
                IN  [w EXCEPT !.next = n, !.integrated = n, !.trace = t]
          [] stage = "ground" ->
                [w EXCEPT !.next.y = GroundY(in.hook, w.next.x, w.pos.y, w.next.z),
                          !.integrated.y = GroundY(in.hook, w.next.x, w.pos.y, w.next.z),
                          !.trace = t]
          [] stage = "flatten" ->
                [w EXCEPT !.next.y = 0, !.integrated.y = 0, !.trace = t]
          [] stage = "resolve" ->
                LET c == ResolveOnce(<<w.next.x, w.next.z>>, colliders, r)
                    n == Vec(c[1], w.next.y, c[2])
                IN  [w EXCEPT !.next = n, !.resolved = n, !.trace = t]
          [] stage = "separate" ->
                [w EXCEPT !.next = SeparateFromTarget(w.next, in.target,
                                                      radius + targetRadius, SEPARATE_EPS),
                          !.trace = t]
          [] stage = "commit" ->
                [w EXCEPT !.pos = w.next, !.trace = t]

\* the statements of stages from the k-th on, in order
RECURSIVE RunStages(_, _, _, _, _, _, _)
RunStages(stages, k, agent, w, in, colliders, r) ==
    IF k > Len(stages) THEN w
    ELSE RunStages(stages, k + 1, agent, ApplyStage(stages[k], agent, w, in, colliders, r),
                   in, colliders, r)

Working(yaw, pos) ==
    [yaw |-> yaw, pos |-> pos, next |-> pos, integrated |-> pos, resolved |-> pos,
     trace |-> << >>]

\* one block, from c_pos and c_yaw
Move(agent, stages) ==
    /\ c_pc = "tick"
    /\ c_agent = agent
    /\ LET w == RunStages(stages, 1, agent, Working(c_yaw, c_pos), c_in, c_colliders, c_radius)
       IN  /\ c_out' = w
           /\ c_point' = <<w.integrated.x, w.integrated.z>>
           /\ c_result' = <<w.resolved.x, w.resolved.z>>
    /\ c_pc' = "done"
    /\ UNCHANGED <<c_colliders, c_radius, c_agent, c_pos, c_yaw, c_in, qvars, gvars, mvars>>
    /\ UNCHANGED <<tvars, evars, hvars>>

PlayerMove == Move("player", PlayerStages)

EnemyMove == Move("enemy", EnemyStages)

\* if (this._hurtKnockback > 0 && this._obj) ... if (dir.lengthSq() > 0)
Knockback ==
    Move("knockback",
         IF c_in.knock > 0 /\ KnockVector(c_pos, c_in) # <<0, 0, 0>>
         THEN KnockbackStages ELSE << >>)

\* Two wall slabs whose inflated rectangles overlap (the gap between them is
\* narrower than an agent), and a pillar clear of both
WallA == [minX |-> -10, maxX |-> 0, minZ |-> -30, maxZ |-> 30]
WallB == [minX |-> 4, maxX |-> 30, minZ |-> -30, maxZ |-> 30]
Pillar == [minX |-> 50, maxX |-> 54, minZ |-> -2, maxZ |-> 2]

MoveColliders == { << >>, <<WallA>>, <<WallA, WallB>>, <<WallA, Pillar>> }

MovePositions == { Vec(x, y, z) : x \in {-20, -4, 2, 6, 14, 45}, y \in {0, 5}, z \in {0, -40} }

\* where the target stands, relative to the enemy
TargetOffsets == { <<0, 0>>, <<0, 6>>, <<-6, 0>>, <<20, 20>>, <<0, -200>>, <<100, 0>> }

Cardinal(yaw) == yaw % FULL_TURN \in {0, 20, 40, 60}

NoInput ==
    [left |-> FALSE, right |-> FALSE, advance |-> 0, dt |-> 0, hook |-> "flat",
     moveSpeed |-> 0, target |-> Vec(0, 0, 0), hitDir |-> << >>, knock |-> 0,
     minDist |-> 0, eps |-> 0]

PlayerInputs ==
    { [NoInput EXCEPT !.left = l, !.right = rt, !.advance = a, !.dt = dt, !.hook = h] :
        l \in BOOLEAN, rt \in BOOLEAN, a \in {-6, 0, 3}, dt \in {5, 10},
        h \in {"flat", "raised", "ramp"} }

EnemyInputs(pos) ==
    { [NoInput EXCEPT !.dt = dt, !.moveSpeed = m,
                      !.target = Vec(pos.x + o[1], ty, pos.z + o[2])] :
        dt \in {1, 5}, m \in {0, speedWalk, speedRun}, o \in TargetOffsets, ty \in {0, 5} }

KnockbackInputs(pos) ==
    { [NoInput EXCEPT !.hitDir = h, !.knock = k,
                      !.target = Vec(pos.x + o[1], 0, pos.z + o[2])] :
        h \in {<< >>, <<1, 0, 0>>, <<0, 0, -2>>}, k \in {hurtKnockback, KnockOn},
        o \in TargetOffsets }

\* a block about to run, for an agent somewhere around the walls
MoveInit ==
    /\ TerrainInit(EnemyParams)
    /\ EnemyInit
    /\ c_pc = "tick"
    /\ c_colliders \in MoveColliders
    /\ c_pos \in MovePositions
    /\ c_agent \in {"player", "enemy", "knockback"}
    /\ c_radius = IF c_agent = "player" THEN PLAYER_RADIUS ELSE radius
    /\ c_yaw \in {0, 20, 40, 60, 13, 27}
    /\ c_in \in CASE c_agent = "player" -> PlayerInputs
                  [] c_agent = "enemy" -> EnemyInputs(c_pos)
                  [] c_agent = "knockback" -> KnockbackInputs(c_pos)
    /\ c_agent = "player" => Cardinal(c_yaw)
    /\ c_agent = "enemy" =>
          /\ (c_in.moveSpeed * c_in.dt) % 10 = 0
          /\ Cardinal(TurnedYaw("enemy", Working(c_yaw, c_pos), c_in))
    /\ c_agent = "knockback" => c_yaw = 0
    /\ c_point = <<c_pos.x, c_pos.z>>
    /\ c_result = c_point
    /\ c_out = Working(c_yaw, c_pos)
    /\ NoCall

MoveNext == PlayerMove \/ EnemyMove \/ Knockback

MoveSpec == MoveInit /\ [][MoveNext]_vars

\* _separateFromTarget on its own.  Lengths are whole numbers of a unit: a
\* fifth of a world unit, where the radii 8 and 5 of _SpawnEnemy make minDist
\* 65 and the threshold 1e-6 lies below every non-zero length (eps 0); or
\* 1e-6 of a world unit, the length of the threshold (eps 1), for an enemy
\* constructed with radius 40e-6 and targetRadius 25e-6.
SeparateMinDist == 5 * (radius + targetRadius)

\* pos - targetPos: along the axes and along the 3-4-5 and 5-12-13 directions,
\* where the normalized vector times minDist is whole
SeparateDeltas ==
    LET axis == { <<k, 0>> : k \in {0, 1, 2, 13, 64, 65, 66, 80} }
        d345 == { <<3 * m, 4 * m>> : m \in {1, 12, 13, 14} }
        d51213 == { <<5 * m, 12 * m>> : m \in {1, 4, 5, 6} }
        base == axis \cup d345 \cup d51213
    IN  UNION { { <<sx * v[1], sz * v[2]>>, <<sz * v[2], sx * v[1]>> } :
                  sx \in {-1, 1}, sz \in {-1, 1}, v \in base }

SeparateInit ==
    /\ TerrainInit(EnemyParams)
    /\ EnemyInit
    /\ c_pc = "call"
    /\ c_agent = "separate"
    /\ c_colliders = << >>
    /\ c_radius = radius
    /\ c_yaw = 0
    /\ \E t \in {Vec(0, 0, 0), Vec(7, 5, -3)}, v \in SeparateDeltas, y \in {0, 2}, e \in {0, 1} :
          /\ c_pos = Vec(t.x + v[1], y, t.z + v[2])
          /\ c_in = [NoInput EXCEPT !.target = t, !.minDist = SeparateMinDist, !.eps = e]
    /\ c_point = <<c_pos.x, c_pos.z>>
    /\ c_result = c_point
    /\ c_out = Working(c_yaw, c_pos)
    /\ NoCall

\* next = this._separateFromTarget(next, targetPos)
Separate ==
    /\ c_pc = "call"
    /\ c_agent = "separate"
    /\ c_out' = [c_out EXCEPT
                    !.next = SeparateFromTarget(c_pos, c_in.target, c_in.minDist, c_in.eps),
                    !.trace = <<"separate">>]
    /\ c_pc' = "done"
    /\ UNCHANGED <<c_point, c_colliders, c_radius, c_result, c_agent, c_pos, c_yaw, c_in, qvars, gvars, mvars>>
    /\ UNCHANGED <<tvars, evars, hvars>>

SeparateNext == Separate

SeparateSpec == SeparateInit /\ [][SeparateNext]_vars

\* _turnTowards alone: a heading, a direction to the target and a dt
TurnDirs ==
    { <<0, 0>>, <<0, 3>>, <<3, 3>>, <<3, 0>>, <<3, -3>>, <<0, -3>>, <<-3, -3>>, <<-3, 0>>,
      <<-3, 3>> }

TurnInit ==
    /\ TerrainInit(EnemyParams)
    /\ EnemyInit
    /\ c_pc = "call"
    /\ c_agent = "turn"
    /\ c_colliders = << >>
    /\ c_radius = radius
    /\ c_pos = Vec(0, 0, 0)
    /\ c_yaw \in (0 - MaxYaw)..MaxYaw
    /\ \E o \in TurnDirs, dt \in 1..MaxTurnDt :
          c_in = [NoInput EXCEPT !.target = Vec(o[1], 0, o[2]), !.dt = dt]
    /\ c_point = <<c_pos.x, c_pos.z>>
    /\ c_result = c_point
    /\ c_out = Working(c_yaw, c_pos)
    /\ NoCall

\* this._turnTowards(toTarget, dt)
Turn ==
    /\ c_pc = "call"
    /\ c_agent = "turn"
    /\ c_out' = ApplyStage("turn", "enemy", c_out, c_in, c_colliders, c_radius)
    /\ c_pc' = "done"
    /\ UNCHANGED <<c_point, c_colliders, c_radius, c_result, c_agent, c_pos, c_yaw, c_in, qvars, gvars, mvars>>
    /\ UNCHANGED <<tvars, evars, hvars>>

TurnNext == Turn

TurnSpec == TurnInit /\ [][TurnNext]_vars

-----------------------------------------------------------------------------
\* Queries of the terrain

\* this.spawn ? this.spawn.clone() : new THREE.Vector3(0, 5, 0)
getFirstRoomCenter(sp) == IF sp # << >> THEN sp[1] ELSE Vec(0, 5, 0)

\* this._rooms.map(r => ({ cx: r.cx, cz: r.cz }))
getRoomCenters(rs) == [k \in 1..Len(rs) |-> [cx |-> rs[k].cx, cz |-> rs[k].cz]]

QueryParamSet ==
    { [isInteger |-> TRUE, nRooms |-> n, seed |-> 0] : n \in 0..MaxQueryRooms }

\* a query at any time after the constructor has returned
Query(call, result) ==
    /\ pc = "built"
    /\ q_pc = "idle"
    /\ q_call' = call
    /\ q_result' = result
    /\ q_pc' = "done"
    /\ UNCHANGED <<tvars, evars, hvars, bvars, gvars, mvars>>

FirstRoomCenterQuery ==
    Query([name |-> "getFirstRoomCenter", args |-> << >>], getFirstRoomCenter(spawn))

RoomCentersQuery ==
    Query([name |-> "getRoomCenters", args |-> << >>], getRoomCenters(rooms))

\* the fields as the code after the loop leaves them for an empty builtCells
\* (no params give this: nRooms and the visitation order are never empty)
EmptyTerrain ==
    /\ params = [isInteger |-> TRUE, nRooms |-> 0, seed |-> 0]
    /\ nRooms = 0
    /\ rows = 1
    /\ cols = 0
    /\ gridOpen = << >>
    /\ visited = (0 :> TRUE)
    /\ visitOrder = << <<0, 0>> >>
    /\ stack = << >>
    /\ pc = "built"
    /\ rooms = Centred(Slice(visitOrder, 0))
    /\ openings = << >>
    /\ walls = << >>
    /\ spawn = <<SpawnOf(rooms)>>
    /\ prev = << >>

\* The room graph and its queries (getRoomCenterAtSteps and the like are
\* called by main.js, their code is not part of the sources)

Infinity == 0 - NEG_INFINITY

RoomCell(rs, k) == <<rs[k].i, rs[k].j>>

\* the rooms an opening of room k leads to
GraphNeighbours(rs, o, k) ==
    { m \in 1..Len(rs) :
        \E d \in {"N", "S", "E", "W"} :
            /\ o[RoomCell(rs, k)][d]
            /\ RoomCell(rs, m) = <<rs[k].i + DIRS[d].di, rs[k].j + DIRS[d].dj>> }

\* breadth-first search, one level at a time
RECURSIVE Bfs(_, _, _, _, _)
Bfs(rs, o, dist, frontier, level) ==
    IF frontier = {} THEN dist
    ELSE LET next == { m \in UNION { GraphNeighbours(rs, o, k) : k \in frontier } :
                         dist[m] = Infinity }
         IN  Bfs(rs, o, [m \in 1..Len(rs) |-> IF m \in next THEN level + 1 ELSE dist[m]],
                 next, level + 1)

\* distancesFrom(i), rooms being numbered from 1
distancesFrom(rs, o, i) ==
    Bfs(rs, o, [m \in 1..Len(rs) |-> IF m = i THEN 0 ELSE Infinity], {i}, 0)

\* the rooms roomAtGraphDistance(start, steps) may return
roomAtGraphDistance(rs, o, start, steps) ==
    LET dist == distancesFrom(rs, o, start)
        exact == { k \in 1..Len(rs) : dist[k] = steps }
        beyond == { k \in 1..Len(rs) : dist[k] > steps }
        far == Max({ dist[k] : k \in 1..Len(rs) })
    IN  IF exact # {} THEN exact
        ELSE IF beyond # {} THEN beyond
        ELSE { Min({ k \in 1..Len(rs) : dist[k] = far }) }

DistancesFromQuery ==
    /\ pc = "built" /\ q_pc = "idle"
    /\ \E i \in 1..Len(rooms) :
        Query([name |-> "distancesFrom", args |-> <<i>>], distancesFrom(rooms, openings, i))

RoomAtGraphDistanceQuery ==
    /\ pc = "built" /\ q_pc = "idle"
    /\ \E start \in 1..Len(rooms), steps \in 0..MaxSteps :
        \E k \in roomAtGraphDistance(rooms, openings, start, steps) :
            Query([name |-> "roomAtGraphDistance", args |-> <<start, steps>>], k)

\* nearestRoomTo(x, z): linear scan, the first of the rooms whose centre is
\* nearest in the XZ plane; index 0 (here: 1) on an empty room set
nearestRoomTo(rs, x, z) ==
    LET d2(k) == (rs[k].cx - x) * (rs[k].cx - x) + (rs[k].cz - z) * (rs[k].cz - z)
    IN  IF Len(rs) = 0 THEN 1
        ELSE Min({ k \in 1..Len(rs) : \A m \in 1..Len(rs) : d2(k) <= d2(m) })

\* farthestRoomFrom(worldPos): nearestRoomTo, then argmax over distancesFrom,
\* ties broken by lowest index; the origin on an empty room set
farthestRoomFrom(rs, o, pos) ==
    IF Len(rs) = 0 THEN [cx |-> 0, cz |-> 0]
    ELSE LET dist == distancesFrom(rs, o, nearestRoomTo(rs, pos[1], pos[2]))
             reached == { k \in 1..Len(rs) : dist[k] < Infinity }
             far == Max({ dist[k] : k \in reached })
             best == Min({ k \in reached : dist[k] = far })
         IN  [cx |-> rs[best].cx, cz |-> rs[best].cz]

\* where the player stands when the portal is placed
WorldPositions == { <<0, 0>>, <<160, -140>>, <<-300, 150>>, <<450, 450>> }

FarthestRoomFromQuery ==
    /\ pc = "built" /\ q_pc = "idle"
    /\ \E pos \in WorldPositions :
        Query([name |-> "farthestRoomFrom", args |-> pos], farthestRoomFrom(rooms, openings, pos))

QueryInit ==
    /\ (\E p \in QueryParamSet : TerrainInit(p)) \/ EmptyTerrain
    /\ EnemyInit
    /\ NoQuery

QueryNext ==
    \/ DfsStep
    \/ Build
    \/ FirstRoomCenterQuery
    \/ RoomCentersQuery
    \/ DistancesFromQuery
    \/ RoomAtGraphDistanceQuery
    \/ FarthestRoomFromQuery

QuerySpec == QueryInit /\ [][QueryNext]_vars

-----------------------------------------------------------------------------
\* js/Terrain.js: N rooms connected by a self avoiding path with spacing

\* used.has(keyIJ(i, j)): the cells of the path
Used(path) == { path[k] : k \in 1..Len(path) }

Step(c, d) == <<c[1] + DIRS[d].di, c[2] + DIRS[d].dj>>

\* (ni, nj) touches no used cell except the parent
isPlacementSafe(n, parent, path) ==
    \A d \in {"E", "W", "N", "S"} :
        Step(n, d) \in Used(path) => Step(n, d) = parent

\* the options of top that the inner loop accepts when it pops them
Acceptable(top, path) ==
    { d \in top.options :
        /\ Step(<<top.i, top.j>>, d) \notin Used(path)
        /\ isPlacementSafe(Step(<<top.i, top.j>>, d), <<top.i, top.j>>, path) }

\* one turn of while (path.length < targetLen). shuffle leaves the options in
\* any order, so any acceptable one may be popped first, after any of the
\* rejected ones
PathLoop ==
    /\ g_pc = "path"
    /\ Len(g_path) < g_target
    /\ IF g_stack = << >>
       THEN /\ g_warnings' = Append(g_warnings, "Failed to build full path")
            /\ g_pc' = "break"
            /\ UNCHANGED <<g_path, g_stack>>
       ELSE LET top == g_stack[Len(g_stack)]
                ok == Acceptable(top, g_path)
            IN  /\ IF ok = {}
                   THEN /\ g_stack' = SubSeq(g_stack, 1, Len(g_stack) - 1)
                        /\ g_path' = IF Len(g_path) > 1
                                      THEN SubSeq(g_path, 1, Len(g_path) - 1)
                                      ELSE g_path
                   ELSE \E d \in ok : \E rejected \in SUBSET (top.options \ ok) :
                        LET n == Step(<<top.i, top.j>>, d)
                        IN  /\ g_path' = Append(g_path, n)
                            /\ g_stack' =
                                  Append([g_stack EXCEPT ![Len(g_stack)].options =
                                                             @ \ ({d} \cup rejected)],
                                         [i |-> n[1], j |-> n[2],
                                          options |-> {"E", "N", "S", "W"} \ {DIRS[d].opposite}])
                /\ UNCHANGED <<g_pc, g_warnings>>
    /\ UNCHANGED <<g_target, g_openings>>
    /\ UNCHANGED <<tvars, evars, hvars, bvars, qvars, mvars>>

\* Mark openings between consecutive rooms, from the at-th pair on: w holds
\* the map and the warnings
RECURSIVE MarkOpenings(_, _, _)
MarkOpenings(cells, at, w) ==
    IF at > Len(cells) - 1 THEN w
    ELSE LET a == cells[at]
             b == cells[at + 1]
             di == b[1] - a[1]
             dj == b[2] - a[2]
             o == w.openings
         IN  MarkOpenings(cells, at + 1,
                CASE di = 1 /\ dj = 0 ->
                        [w EXCEPT !.openings = [o EXCEPT ![b].W = TRUE, ![a].E = TRUE]]
                  [] di = 0 /\ dj = 1 ->
                        [w EXCEPT !.openings = [o EXCEPT ![a].N = TRUE, ![b].S = TRUE]]
                  [] di = 0 /\ dj = -1 ->
                        [w EXCEPT !.openings = [o EXCEPT ![b].N = TRUE, ![a].S = TRUE]]
                  [] OTHER ->
                        [w EXCEPT !.warnings = Append(@, "Non adjacent step in path")])

\* after the loop: the cells of the path and the openings between them
PathBuild ==
    /\ \/ g_pc = "path" /\ Len(g_path) >= g_target
       \/ g_pc = "break"
    /\ LET w == MarkOpenings(g_path, 1,
                    [openings |-> [c \in Used(g_path) |-> NoOpen], warnings |-> g_warnings])
       IN  /\ g_openings' = w.openings
           /\ g_warnings' = w.warnings
    /\ g_pc' = "built"
    /\ UNCHANGED <<g_target, g_path, g_stack>>
    /\ UNCHANGED <<tvars, evars, hvars, bvars, qvars, mvars>>

\* Owner rule walls, with door openings: the wall on the edge between the
\* adjacent cells a and b is the North wall of the southern one or the West wall
\* of the eastern one, and has a doorway when that cell's opening says so
PathDoorway(o, cells, a, b) ==
    CASE b = Step(a, "N") -> o[a].N
      [] b = Step(a, "S") -> o[b].N
      [] b = Step(a, "E") -> IF a \in cells THEN o[b].W ELSE FALSE
      [] b = Step(a, "W") -> IF b \in cells THEN o[a].W ELSE FALSE

PathParamSet ==
    { [isInteger |-> TRUE, nRooms |-> n, seed |-> 0] : n \in -1..MaxPathRooms }
        \cup { [isInteger |-> FALSE, nRooms |-> 0, seed |-> 0] }

\* _Init as the loop is first entered
PathInit ==
    /\ TerrainInit(EnemyParams)
    /\ EnemyInit
    /\ NoBlock
    /\ Unqueried
    /\ g_pc = "path"
    /\ \E p \in PathParamSet : g_target = ParamNRooms(p)
    /\ g_path = <<<<0, 0>>>>
    /\ g_stack = <<[i |-> 0, j |-> 0, options |-> {"E", "N", "S"}]>>
    /\ g_warnings = << >>
    /\ g_openings = << >>
    /\ NoGame

PathNext == PathLoop \/ PathBuild

PathSpec == PathInit /\ [][PathNext]_vars

-----------------------------------------------------------------------------
\* js/main.js: the frame loop, the keys and the end of the game

\* the squared distance of the player to the portal as a step finds it
PortalDist2 == {0, 784, 785}

\* the fields of the demo the end of the game reads and writes
Game ==
    [won |-> m_won, lost |-> m_lost, raf |-> m_raf, pending |-> m_pending,
     key |-> m_key, portal |-> m_portal]

GameNeverOver(won, lost) == FALSE

\* the test of the frame callback: !(!this._gameWon && !this._gameLost)
GameOver(won, lost) == won \/ lost

\* _stopLoopAndInput: cancelAnimationFrame(this._rafHandle), removeEventListener
stopLoopAndInput(g) ==
    IF g.raf # 0
    THEN [g EXCEPT !.pending = @ \ {g.raf}, !.raf = 0, !.key = FALSE]
    ELSE [g EXCEPT !.key = FALSE]

\* _winGame
winGame(g) ==
    IF g.won \/ g.lost THEN g ELSE stopLoopAndInput([g EXCEPT !.won = TRUE])

\* _loseGame
loseGame(g) ==
    IF g.lost \/ g.won THEN g ELSE stopLoopAndInput([g EXCEPT !.lost = TRUE])

\* onHpChange(hp, max), for each call the player's controller makes
RECURSIVE onHpChange(_, _)
onHpChange(g, calls) ==
    IF calls = << >> THEN g
    ELSE onHpChange(IF ~g.won /\ ~g.lost /\ Head(calls)[1] <= 0 THEN loseGame(g) ELSE g,
                    Tail(calls))

\* _Step: the enemy's Update reaches the game through onHitPlayer (hits), the
\* player's through its distance to the portal (dist2)
StepGame(g, hit, target, dist2) ==
    LET afterEnemy == onHpChange(g, hit.calls)
        spawned == IF ~afterEnemy.portal /\ target
                   THEN [afterEnemy EXCEPT !.portal = TRUE] ELSE afterEnemy
    IN  IF /\ ~spawned.won /\ ~spawned.lost /\ spawned.portal /\ target
           /\ dist2 <= triggerRadius * triggerRadius
        THEN winGame(spawned)
        ELSE spawned

\* the game's fields take the values of g
SetGame(g) ==
    /\ m_won' = g.won
    /\ m_lost' = g.lost
    /\ m_raf' = g.raf
    /\ m_pending' = g.pending
    /\ m_key' = g.key
    /\ m_portal' = g.portal

\* the callback of _RAF runs for a requested frame: render, _Step unless the
\* game is over, _RAF again
Frame ==
    /\ m_next <= MaxFrames
    /\ \E h \in m_pending, hits \in {<< >>, <<attackDamage>>}, dist2 \in PortalDist2 :
        LET g == [Game EXCEPT !.pending = @ \ {h}]
            over == GameOver(m_won, m_lost)
            hit == HitPlayer(p_hp, p_hpMax, hits)
            stepped == StepGame(g, hit, m_target, dist2)
        IN  IF over
            THEN /\ SetGame(g)
                 /\ m_late' = m_late + 1
                 /\ UNCHANGED <<m_next, m_steps, hvars>>
            ELSE /\ SetGame([stepped EXCEPT !.raf = m_next, !.pending = @ \cup {m_next}])
                 /\ m_next' = m_next + 1
                 /\ m_steps' = m_steps + 1
                 /\ p_hp' = hit.hp
                 /\ hpCalls' = hit.calls
                 /\ UNCHANGED <<m_late, p_hpMax>>
    /\ UNCHANGED m_target
    /\ UNCHANGED <<tvars, evars, bvars, qvars, gvars>>

\* this._onKey: KeyH damages the player, KeyJ heals, KeyP spawns the portal
KeyDown ==
    /\ m_key
    /\ \E code \in {"KeyH", "KeyJ", "KeyP", "KeyQ"} :
        LET over == m_won \/ m_lost
            hurt == PlayerDamaged(p_hp, p_hpMax, 7)
            healed == IF p_hp + 7 < p_hpMax THEN p_hp + 7 ELSE p_hpMax
        IN  CASE ~over /\ code = "KeyH" ->
                    /\ SetGame(onHpChange(Game, hurt.calls))
                    /\ p_hp' = hurt.hp
                    /\ hpCalls' = hurt.calls
                    /\ UNCHANGED p_hpMax
              [] ~over /\ code = "KeyJ" ->
                    /\ SetGame(onHpChange(Game, << <<healed, p_hpMax>> >>))
                    /\ p_hp' = healed
                    /\ hpCalls' = << <<healed, p_hpMax>> >>
                    /\ UNCHANGED p_hpMax
              [] ~over /\ code = "KeyP" ->
                    /\ SetGame([Game EXCEPT !.portal = TRUE])
                    /\ UNCHANGED hvars
              [] OTHER ->
                    /\ SetGame(Game)
                    /\ UNCHANGED hvars
    /\ UNCHANGED <<m_next, m_target, m_steps, m_late>>
    /\ UNCHANGED <<tvars, evars, bvars, qvars, gvars>>

\* the player's model finishes loading: this._target is set
TargetLoaded ==
    /\ ~m_target
    /\ m_target' = TRUE
    /\ UNCHANGED <<m_won, m_lost, m_raf, m_pending, m_next, m_key, m_portal, m_steps, m_late>>
    /\ UNCHANGED <<tvars, evars, hvars, bvars, qvars, gvars>>

\* the constructor has run: the listener is attached and _RAF has requested
\* the first frame
GameInit ==
    /\ TerrainInit(EnemyParams)
    /\ EnemyInit
    /\ NoBlock
    /\ Unqueried
    /\ NoPath
    /\ m_won = FALSE
    /\ m_lost = FALSE
    /\ m_raf = 1
    /\ m_pending = {1}
    /\ m_next = 2
    /\ m_key = TRUE
    /\ m_target = FALSE
    /\ m_portal = FALSE
    /\ m_steps = 0
    /\ m_late = 0

GameNext == Frame \/ KeyDown \/ TargetLoaded

GameSpec == GameInit /\ [][GameNext]_vars

-----------------------------------------------------------------------------
\* Helpers for the properties

Dirs == {"N", "S", "E", "W"}

built == pc = "built"

RoomCells == { <<rooms[k].i, rooms[k].j>> : k \in 1..Len(rooms) }

Neighbour(c, d) == <<c[1] + DIRS[d].di, c[2] + DIRS[d].dj>>

\* the place and orientation of the edge of room r on side d
EdgeAt(r, d) ==
    CASE d = "N" -> [x |-> r.cx, z |-> r.cz + HALF_ROOM, horizontal |-> TRUE]
      [] d = "S" -> [x |-> r.cx, z |-> r.cz - HALF_ROOM, horizontal |-> TRUE]
      [] d = "E" -> [x |-> r.cx + HALF_ROOM, z |-> r.cz, horizontal |-> FALSE]
      [] d = "W" -> [x |-> r.cx - HALF_ROOM, z |-> r.cz, horizontal |-> FALSE]

WallPlace(w) == [x |-> w.x, z |-> w.z, horizontal |-> w.horizontal]

WallsAt(e) == { k \in 1..Len(walls) : WallPlace(walls[k]) = e }

\* cells reachable from the cells of S along openings of the map o (a chain
\* of openings, each followed from the room that has it)
RECURSIVE ReachVia(_, _)
ReachVia(S, o) ==
    LET step == S \cup UNION { { Neighbour(c, d) : d \in { e \in Dirs : o[c][e] } } : c \in S }
    IN  IF step = S THEN S ELSE ReachVia(step, o)

GridCells == { <<i, j>> : i \in 0..(cols - 1), j \in 0..(rows - 1) }

GridOpenOf == [c \in GridCells |-> gridOpen[idx(c[1], c[2])]]

\* number of carved passages: pairs (cell, direction) open toward N or E
PassageCount ==
    Cardinality({ <<c, d>> \in GridCells \X {"N", "E"} : GridOpenOf[c][d] })

TruncationHappened == built /\ Len(rooms) < Len(visitOrder)

-----------------------------------------------------------------------------
\* C1: for every targetRooms >= 1 generation yields exactly
\* min(targetRooms, number of visited cells) rooms, and no two rooms share
\* their (i, j).
C1_RoomCount ==
    built =>
        /\ nRooms >= 1
        /\ Len(rooms) = (IF nRooms < Len(visitOrder) THEN nRooms ELSE Len(visitOrder))
        /\ \A a, b \in 1..Len(rooms) :
              a # b => <<rooms[a].i, rooms[a].j>> # <<rooms[b].i, rooms[b].j>>

C1_Witness == TruncationHappened /\ Len(rooms) >= 5

\* C2: openings between built rooms are symmetric: A opens toward B iff B
\* opens back toward A.
C2_OpeningsSymmetric ==
    built =>
        \A a \in RoomCells : \A d \in Dirs :
            Neighbour(a, d) \in RoomCells =>
                (openings[a][d] <=> openings[Neighbour(a, d)][DIRS[d].opposite])

C2_Witness ==
    /\ built
    /\ \E a \in RoomCells : \E d, e \in Dirs :
          /\ Neighbour(a, d) \in RoomCells /\ openings[a][d]
          /\ Neighbour(a, e) \in RoomCells /\ ~openings[a][e]

\* C3: the edge of a built room A toward the cell B carries a doorway iff B
\* is built too and the DFS carved a passage between A and B; every other
\* edge of a room carries a solid wall.
C3_DoorIffCarved ==
    built =>
        \A k \in 1..Len(rooms) : \A d \in Dirs :
            LET a == <<rooms[k].i, rooms[k].j>>
                at == WallsAt(EdgeAt(rooms[k], d))
                carved == /\ Neighbour(a, d) \in RoomCells
                          /\ gridOpen[idx(a[1], a[2])][d]
                          /\ gridOpen[idx(a[1] + DIRS[d].di, a[2] + DIRS[d].dj)][DIRS[d].opposite]
            IN  /\ at # {}
                /\ \A w \in at : walls[w].door <=> carved

C3_Witness ==
    /\ TruncationHappened
    /\ \E k \in 1..Len(walls) : walls[k].door
    /\ \E a \in RoomCells : \E d \in Dirs :
          gridOpen[idx(a[1], a[2])][d] /\ Neighbour(a, d) \notin RoomCells

\* C4: every edge of every built room receives exactly one wall element; an
\* edge shared by two built rooms is emitted by the room whose North or West
\* edge it is, and a South or East wall is emitted only where no built room
\* lies on that side.
C4_OneWallPerEdge ==
    built =>
        /\ \A k \in 1..Len(rooms) : \A d \in Dirs :
              LET a == <<rooms[k].i, rooms[k].j>>
                  at == WallsAt(EdgeAt(rooms[k], d))
              IN  /\ Cardinality(at) = 1
                  /\ Neighbour(a, d) \in RoomCells =>
                        \A w \in at :
                            /\ walls[w].side \in {"N", "W"}
                            /\ walls[w].owner = (IF d \in {"N", "W"} THEN a ELSE Neighbour(a, d))
        /\ \A w \in 1..Len(walls) :
              walls[w].side \in {"S", "E"} =>
                  Neighbour(walls[w].owner, walls[w].side) \notin RoomCells
        /\ \A v, w \in 1..Len(walls) : v # w => WallPlace(walls[v]) # WallPlace(walls[w])

C4_Witness ==
    /\ built
    /\ \E a \in RoomCells : Neighbour(a, "S") \in RoomCells /\ Neighbour(a, "E") \in RoomCells
    /\ \E w \in 1..Len(walls) : walls[w].side = "S"
    /\ \E w \in 1..Len(walls) : walls[w].side = "E"

\* C5: the carving loop ends with an empty stack, every cell of the
\* rows x cols grid visited, and the carved passages a spanning tree: exactly
\* rows*cols - 1 passages and every cell connected to (0,0) (hence no cycle).
DfsDone ==
    /\ stack = << >>
    /\ \A c \in GridCells : visited[idx(c[1], c[2])]
    /\ Len(visitOrder) = rows * cols
    /\ PassageCount = rows * cols - 1
    /\ ReachVia({<<0, 0>>}, GridOpenOf) = GridCells

C5_DfsSpanningTree == <>DfsDone

C5_Witness == pc = "dfs" /\ stack = << >> /\ rows >= 3 /\ cols >= 4

\* C6 as stated: truncation can disconnect the result, some run ends with a
\* built room that no chain of openings links to room 0.
SealedRoomExists ==
    /\ built
    /\ ReachVia({<<rooms[1].i, rooms[1].j>>}, openings) # RoomCells

C6_SealedRoomReached == <>SealedRoomExists

\* C6 amended: truncation never disconnects: in every generated maze every
\* built room is linked to room 0 by a chain of openings.
C6_NoSealedRoom == ~SealedRoomExists

\* a truncated maze in which some built room does not follow a neighbour in
\* the visitation order (the DFS had backtracked before reaching it)
C6_Witness ==
    /\ TruncationHappened
    /\ \E k \in 2..Len(rooms) :
          \A d \in Dirs : Neighbour(<<rooms[k].i, rooms[k].j>>, d)
                              # <<rooms[k - 1].i, rooms[k - 1].j>>

\* C7: a non-positive (or missing) nRooms is replaced by the default 12 and
\* generation completes; a positive integer is used as given.
C7_ClampToDefault ==
    /\ nRooms = (IF params.isInteger /\ params.nRooms >= 1 THEN params.nRooms ELSE 12)
    /\ (built /\ ~(params.isInteger /\ params.nRooms >= 1)) => Len(rooms) = 12

C7_Witness == built /\ params.isInteger /\ params.nRooms <= 0 /\ Len(rooms) = 12

\* C8: two generations with the same targetRooms and the same seed produce
\* the same visitation order, rooms and openings.
C8_SeedDeterministic ==
    (built /\ prev # << >>) =>
        /\ visitOrder = prev[1].visitOrder
        /\ rooms = prev[1].rooms
        /\ openings = prev[1].openings

\* C9: targetRooms = 1 yields one room whose North, West, South and East
\* edges are all solid walls, with no doorway.
C9_SingleRoomClosed ==
    (built /\ nRooms = 1) =>
        /\ Len(rooms) = 1
        /\ Len(walls) = 4
        /\ \A d \in Dirs :
              \E w \in 1..Len(walls) :
                  /\ walls[w].side = d
                  /\ WallPlace(walls[w]) = EdgeAt(rooms[1], d)
                  /\ ~walls[w].door

C9_Witness == built /\ nRooms = 1 /\ Len(walls) > 0

-----------------------------------------------------------------------------
\* C10: in a tick whose measured distance lies within aggroRange - 1 ..
\* aggroRange + 1 an enemy that is in chase never drops to idle, so an enemy
\* hovering at the aggro boundary never flaps chase -> idle.
InAggroBand(dist) == dist >= aggroRange - 1 /\ dist <= aggroRange + 1

C10_NoFlapInBand ==
    [][(e_fsm.state = "chase" /\ InAggroBand(e_dist')) => e_fsm'.state # "idle"]_vars

\* chase was re-evaluated (no hold, no hurt) at aggroRange + 1 and kept
C10_Witness ==
    /\ e_fsm.state = "chase"
    /\ e_dist = aggroRange + 1
    /\ e_fsm.stateHold <= 0
    /\ ~e_hurtActive
    /\ e_time >= 2 * MaxDt

-----------------------------------------------------------------------------
\* Steps of the enemy, as the properties below see them

\* the step is an Update: only Update advances this._time
Ticked == e_time' # e_time

TickDt == e_time' - e_time

\* stateHold after the tick's decrement
HoldAfterDecrement ==
    IF e_fsm.stateHold > 0 THEN e_fsm.stateHold - TickDt ELSE e_fsm.stateHold

\* the tick's transitions are suppressed: hold still running, or hurt window active
TickSuppressed == HoldAfterDecrement > 0 \/ e_hurtActive'

\* the tick entered attack (from chase, or as a re-trigger)
AttackEntered == Ticked /\ e_fsm'.state = "attack" /\ e_fsm'.attackStartTime = e_time'

\* the attack under way has run for its duration at the tick's time
AttackFinished == (e_time' - e_fsm.attackStartTime) >= e_attackDuration

PlayerHpAfterHit == IF p_hp - attackDamage > 0 THEN p_hp - attackDamage ELSE 0

\* C11: in a tick whose stateHold is still > 0 after the decrement, or whose
\* hurt window is active, the state does not change and no attack starts; a
\* state entered with hold h is left (or the attack restarted) only once at
\* least h of dt has accumulated, and only by a tick.
C11_HoldSuppresses ==
    [][ /\ (Ticked /\ TickSuppressed) =>
              (e_fsm'.state = e_fsm.state /\ ~AttackEntered /\ ~e_hitNow')
        /\ (Ticked /\ (e_fsm'.state # e_fsm.state \/ AttackEntered)) =>
              e_entry.since + TickDt >= e_entry.hold
        /\ ~Ticked => e_fsm'.state = e_fsm.state ]_vars

\* chase is on hold, one tick after it was entered, with the target already
\* past the deaggro range
C11_Witness ==
    /\ e_fsm.state = "chase"
    /\ e_fsm.stateHold > 0
    /\ e_entry.since > 0
    /\ PastDeaggroRange(e_dist)

\* C12: a tick that finds the enemy in chase, unsuppressed and within the
\* deaggro range enters attack iff distance <= attackEnterRange and
\* now - lastAttackEnd >= attackCooldown.
C12_ChaseToAttack ==
    [][ (Ticked /\ e_fsm.state = "chase" /\ ~TickSuppressed /\ ~PastDeaggroRange(e_dist')) =>
            (e_fsm'.state = "attack" <=>
                (e_dist' <= attackEnterRange
                 /\ (e_time' - e_fsm.lastAttackEnd) >= attackCooldown)) ]_vars

\* C13: onHitPlayer is invoked in a step iff the step is a tick that enters
\* attack, then exactly once, with attackDamage, and the player takes that
\* damage in the same step.
C13_HitOnAttackEntry ==
    [][ /\ e_hitNow' <=> AttackEntered
        /\ e_hitNow' => (e_fsm'.hits = <<attackDamage>> /\ p_hp' = PlayerHpAfterHit)
        /\ (Ticked /\ ~e_hitNow') => (e_fsm'.hits = << >> /\ p_hp' = p_hp) ]_vars

\* the second hit has just been delivered
C13_Witness == e_hitNow /\ p_hp = PLAYER_HP - 2 * attackDamage

\* C14: a tick leaves attack for chase exactly when the attack duration has
\* elapsed, transitions are not suppressed, and distance > attackExitRange or
\* (cooldown not elapsed and distance > deaggroRange); attack is left for no
\* other state.
C14_AttackToChase ==
    [][ (Ticked /\ e_fsm.state = "attack") =>
            /\ e_fsm'.state \in {"attack", "chase"}
            /\ e_fsm'.state = "chase" <=>
                  /\ AttackFinished
                  /\ ~TickSuppressed
                  /\ \/ e_dist' > attackExitRange
                     \/ /\ (e_time' - e_fsm.lastAttackEnd) < attackCooldown
                        /\ PastDeaggroRange(e_dist') ]_vars

\* chase was just entered from a finished attack, the target one unit past
\* attackExitRange
C14_Witness ==
    /\ e_fsm.state = "chase"
    /\ e_fsm.lastAttackEnd = e_time
    /\ ~e_hurtActive
    /\ e_entry.since = 0
    /\ e_dist = attackExitRange + 1

\* C15: a tick that finds the enemy in attack, unsuppressed, the attack
\* duration elapsed, distance <= attackExitRange and the cooldown elapsed
\* since lastAttackEnd (which is this tick's time when this tick is the one
\* that ends the attack) restarts the attack: attackStartTime = now, the hold
\* is reset and the damage is dealt again.
C15_AttackRetrigger ==
    [][ (/\ Ticked /\ e_fsm.state = "attack" /\ ~TickSuppressed /\ AttackFinished
         /\ e_dist' <= attackExitRange
         /\ (e_time' - (IF e_fsm.attackPlaying THEN e_time' ELSE e_fsm.lastAttackEnd))
                >= attackCooldown) =>
            /\ e_fsm'.state = "attack"
            /\ e_fsm'.attackStartTime = e_time'
            /\ e_fsm'.stateHold = minAttackHold
            /\ e_fsm'.attackPlaying
            /\ e_hitNow'
            /\ p_hp' = PlayerHpAfterHit ]_vars

\* an attack restarted from attack, with the target at attackExitRange
C15_Witness ==
    /\ e_fsm.state = "attack"
    /\ e_entry.retrigger
    /\ e_entry.since = 0
    /\ e_dist = attackExitRange

\* C16: damage(n) while now < invulnEndTime leaves hp, the hurt window,
\* invulnEndTime, lastAttackEnd, the FSM state and the position unchanged.
C16_InvulnBlocksDamage ==
    [][ (e_dmg' # << >> /\ e_time < e_invulnEndTime) =>
            /\ e_hp' = e_hp
            /\ e_hurtActive' = e_hurtActive
            /\ e_hurtEndTime' = e_hurtEndTime
            /\ e_invulnEndTime' = e_invulnEndTime
            /\ e_fsm' = e_fsm
            /\ e_dmg'[1].knock = 0 ]_vars

\* damage(30) was called on the loaded enemy inside an invulnerability
\* window that had opened at an earlier time
C16_Witness ==
    /\ e_obj
    /\ e_dmg = << [amount |-> 30, knock |-> 0] >>
    /\ e_invulnEndTime - e_params.invulnDuration < e_time
    /\ e_time < e_invulnEndTime

\* C17: 0 <= hp <= hpMax for the enemy and for the player, after construction
\* with any parameters and after any damage, heal and setMaxHp calls.
C17_HpBounds ==
    /\ 0 <= e_hp /\ e_hp <= e_hpMax
    /\ 0 <= p_hp /\ p_hp <= p_hpMax

\* C18: every change of an agent's hp or hpMax is delivered to the host by a
\* callback carrying (currentHp, maxHp), for the player and the enemy alike.
C18_HpChangeReported ==
    [][ /\ (p_hp' # p_hp \/ p_hpMax' # p_hpMax) =>
              \E k \in 1..Len(hpCalls') : hpCalls'[k] = <<p_hp', p_hpMax'>>
        /\ (e_hp' # e_hp \/ e_hpMax' # e_hpMax) =>
              \E k \in 1..Len(hpCalls') : hpCalls'[k] = <<e_hp', e_hpMax'>> ]_vars

\* C19: an effective damage(n) (amount > 0, not invulnerable) opens a hurt
\* window ending hurtDuration later and an invulnerability window ending
\* invulnDuration later; the hurt window stays active on exactly the ticks
\* before its end, and on every tick on which it is active moveSpeed is 0.
C19_HurtStopsMovement ==
    [][ /\ (e_dmg' # << >> /\ e_dmg'[1].amount > 0 /\ ~(e_time < e_invulnEndTime)) =>
              /\ e_hurtActive'
              /\ e_hurtEndTime' = e_time + e_hurtDuration
              /\ e_invulnEndTime' = e_time + e_params.invulnDuration
        /\ Ticked =>
              /\ e_hurtActive' <=> (e_hurtActive /\ e_time' < e_hurtEndTime)
              /\ e_hurtActive' => e_moveSpeed' = 0 ]_vars

\* a tick found the chasing enemy (run clip loaded) inside its hurt window
C19_Witness ==
    /\ e_fsm.state = "chase"
    /\ e_runClip
    /\ e_hurtActive
    /\ e_dmg = << >>
    /\ e_moveSpeed = 0

-----------------------------------------------------------------------------
\* the rectangle of the query, inflated by the radius
Inflated ==
    [minX |-> c_colliders[1].minX - c_radius, maxX |-> c_colliders[1].maxX + c_radius,
     minZ |-> c_colliders[1].minZ - c_radius, maxZ |-> c_colliders[1].maxZ + c_radius]

StrictlyInside(pt, b) == b.minX < pt[1] /\ pt[1] < b.maxX /\ b.minZ < pt[2] /\ pt[2] < b.maxZ

OnBoundary(pt, b) ==
    /\ b.minX <= pt[1] /\ pt[1] <= b.maxX /\ b.minZ <= pt[2] /\ pt[2] <= b.maxZ
    /\ ~StrictlyInside(pt, b)

\* the least of the distances from pt to the four edges of b
LeastDepth(pt, b) ==
    CHOOSE m \in {pt[1] - b.minX, b.maxX - pt[1], pt[2] - b.minZ, b.maxZ - pt[2]} :
        \A o \in {pt[1] - b.minX, b.maxX - pt[1], pt[2] - b.minZ, b.maxZ - pt[2]} : m <= o

\* C20: push-out on a single rectangle: a point inside the rectangle inflated
\* by the radius comes back on the boundary of the inflated rectangle, moved
\* in exactly one coordinate, by the least of its four distances to the
\* inflated edges; a point on that boundary or outside it comes back unchanged.
C20_PushOutSingleRect ==
    (c_pc = "done" /\ Len(c_colliders) = 1) =>
        IF StrictlyInside(c_point, Inflated)
        THEN /\ OnBoundary(c_result, Inflated)
             /\ (c_result[1] = c_point[1]) # (c_result[2] = c_point[2])
             /\ Abs(c_result[1] - c_point[1]) + Abs(c_result[2] - c_point[2])
                    = LeastDepth(c_point, Inflated)
        ELSE c_result = c_point

\* a point inside the enemy's inflated rectangle was pushed out along z
C20_Witness ==
    /\ c_pc = "done"
    /\ c_radius = radius
    /\ StrictlyInside(c_point, Inflated)
    /\ c_result[2] # c_point[2]

-----------------------------------------------------------------------------
\* Movement blocks

InflatedBy(rect, r) ==
    [minX |-> rect.minX - r, maxX |-> rect.maxX + r,
     minZ |-> rect.minZ - r, maxZ |-> rect.maxZ + r]

\* the inflated rectangles of a and b share interior points
Overlap(a, b, r) ==
    /\ a.minX - r < b.maxX + r /\ b.minX - r < a.maxX + r
    /\ a.minZ - r < b.maxZ + r /\ b.minZ - r < a.maxZ + r

PairwiseApart(colliders, r) ==
    \A j, k \in 1..Len(colliders) : j # k => ~Overlap(colliders[j], colliders[k], r)

\* a tick of the player or of the enemy has run
TickDone == c_pc = "done" /\ c_agent \in {"player", "enemy"}

\* C21 as stated: after the two sweeps of a tick the position is strictly
\* inside no collider inflated by the agent's radius, whatever the colliders.
C21_NoPenetration ==
    TickDone =>
        \A k \in 1..Len(c_colliders) :
            ~StrictlyInside(c_result, InflatedBy(c_colliders[k], c_radius))

\* C21: after the two sweeps of a tick the position is strictly inside no
\* collider inflated by the agent's radius, provided no two inflated colliders
\* overlap.
C21_NoPenetrationApart ==
    (TickDone /\ PairwiseApart(c_colliders, c_radius)) =>
        \A k \in 1..Len(c_colliders) :
            ~StrictlyInside(c_result, InflatedBy(c_colliders[k], c_radius))

\* the enemy stepped into the inflated slab, beside a pillar, and was pushed out
C21_Witness ==
    /\ TickDone
    /\ c_agent = "enemy"
    /\ c_colliders = <<WallA, Pillar>>
    /\ c_point # <<c_pos.x, c_pos.z>>
    /\ StrictlyInside(c_point, InflatedBy(WallA, c_radius))
    /\ c_result # c_point

\* a separation has been computed
Separated == c_pc = "done" /\ c_agent = "separate"

\* the square of the horizontal distance between two positions
HorizontalSq(a, b) == (a.x - b.x) * (a.x - b.x) + (a.z - b.z) * (a.z - b.z)

\* q is on the horizontal ray that starts at the target and passes through pos
OnRayThrough(q, target, pos) ==
    /\ (q.x - target.x) * (pos.z - target.z) = (q.z - target.z) * (pos.x - target.x)
    /\ (q.x - target.x) * (pos.x - target.x) + (q.z - target.z) * (pos.z - target.z) > 0

IsVector(v) == v.x \in Int /\ v.y \in Int /\ v.z \in Int

\* C22 as stated: with d the horizontal distance from pos to the target,
\* 0 < d < radius + targetRadius gives a result on the ray from the target
\* through pos at distance exactly radius + targetRadius; otherwise pos comes
\* back unchanged; the result is always a vector of numbers.
C22_SeparateAsStated ==
    Separated =>
        /\ IsVector(c_out.next)
        /\ IF /\ 0 < HorizontalSq(c_pos, c_in.target)
              /\ HorizontalSq(c_pos, c_in.target) < c_in.minDist * c_in.minDist
           THEN /\ OnRayThrough(c_out.next, c_in.target, c_pos)
                /\ HorizontalSq(c_out.next, c_in.target) = c_in.minDist * c_in.minDist
           ELSE c_out.next = c_pos

\* C22: the same with the degenerate case being d <= 1e-6 rather than d = 0:
\* 1e-6 < d < radius + targetRadius gives a result on the ray at distance
\* exactly radius + targetRadius; d >= radius + targetRadius or d <= 1e-6
\* gives pos back unchanged; the result is always a vector of numbers.
C22_SeparateAboveThreshold ==
    Separated =>
        /\ IsVector(c_out.next)
        /\ IF /\ c_in.eps * c_in.eps < HorizontalSq(c_pos, c_in.target)
              /\ HorizontalSq(c_pos, c_in.target) < c_in.minDist * c_in.minDist
           THEN /\ OnRayThrough(c_out.next, c_in.target, c_pos)
                /\ HorizontalSq(c_out.next, c_in.target) = c_in.minDist * c_in.minDist
           ELSE c_out.next = c_pos

\* a position 3-4-5 off the target, in units of 1e-6, was pushed out to the
\* contact distance, and took the target's height
C22_Witness ==
    /\ Separated
    /\ c_in.eps = 1
    /\ c_pos.x - c_in.target.x = 3 /\ c_pos.z - c_in.target.z = -4
    /\ c_out.next # c_pos
    /\ c_out.next.x - c_in.target.x = 39
    /\ c_out.next.y = c_in.target.y

\* C23: after every player Update the player's Y is the ground height at the
\* new XZ position, for any ground-height hook and any starting Y.
C23_PlayerOnGround ==
    (c_pc = "done" /\ c_agent = "player") =>
        c_out.pos.y = HeightAt(c_in.hook, c_out.pos.x, c_out.pos.z)

-----------------------------------------------------------------------------
\* Queries of the terrain

Asked(name) == q_pc = "done" /\ q_call.name = name

Linked(a, b) ==
    \E d \in Dirs : \/ openings[a][d] /\ Neighbour(a, d) = b
                    \/ openings[b][d] /\ Neighbour(b, d) = a

\* the least number of openings to pass from a cell of S to the cell c, S
\* being all the cells within n openings of where the walk started
RECURSIVE HopsFrom(_, _, _)
HopsFrom(S, c, n) ==
    IF c \in S THEN n
    ELSE LET step == S \cup { b \in RoomCells : \E a \in S : Linked(a, b) }
         IN  IF step = S THEN Infinity ELSE HopsFrom(step, c, n + 1)

GraphDistance(j, k) == HopsFrom({RoomCell(rooms, j)}, RoomCell(rooms, k), 0)

\* C25: distancesFrom(i) gives 0 for room i, distances of two rooms joined by
\* an opening differ by at most 1, the distance to k is at most the distance
\* to j plus the distance from j to k, and a room has distance Infinity
\* exactly when no chain of openings leads to it from i.
C25_BfsDistances ==
    Asked("distancesFrom") =>
        LET i == q_call.args[1]
            R == 1..Len(rooms)
        IN  /\ DOMAIN q_result = R
            /\ q_result[i] = 0
            /\ \A a, b \in R :
                  Linked(RoomCell(rooms, a), RoomCell(rooms, b)) =>
                      /\ q_result[a] - q_result[b] <= 1
                      /\ q_result[b] - q_result[a] <= 1
            /\ \A j \in R :
                  LET fromJ == distancesFrom(rooms, openings, j)
                  IN  \A k \in R :
                        (q_result[j] < Infinity /\ fromJ[k] < Infinity)
                            => q_result[k] <= q_result[j] + fromJ[k]
            /\ \A k \in R : (q_result[k] = Infinity) <=> (GraphDistance(i, k) = Infinity)
            /\ \A k \in R : q_result[k] \in 0..(Len(rooms) - 1) \cup {Infinity}

\* distances from a room in the middle of the visitation order of the default
\* twelve rooms, one of them five openings away
C25_Witness ==
    /\ Asked("distancesFrom")
    /\ Len(rooms) = 12
    /\ q_call.args[1] = 4
    /\ \E k \in 1..Len(rooms) : q_result[k] = 5

\* C26: roomAtGraphDistance(start, steps) returns a room exactly steps
\* openings away from start when there is one; else a room more than steps
\* away when there is one; else a room farthest from start.
C26_RoomAtGraphDistance ==
    Asked("roomAtGraphDistance") =>
        LET start == q_call.args[1]
            steps == q_call.args[2]
            R == 1..Len(rooms)
            D(k) == GraphDistance(start, k)
        IN  /\ q_result \in R
            /\ IF \E k \in R : D(k) = steps THEN D(q_result) = steps
               ELSE IF \E k \in R : D(k) > steps THEN D(q_result) > steps
               ELSE \A k \in R : D(k) <= D(q_result)

\* with three rooms in a row no room is four openings from the first: the
\* farthest, two away, is returned
C26_Witness ==
    /\ Asked("roomAtGraphDistance")
    /\ Len(rooms) = 3
    /\ q_call.args = <<1, 4>>
    /\ GraphDistance(1, q_result) = 2

\* C28: the stateHold timer is clamped at zero: it is never negative after
\* an Update, whatever the dt.
C28_StateHoldNeverNegative == e_fsm.stateHold >= 0

\* stage a ran in the tick, stage b ran, and every a ran before every b
RanBefore(trace, a, b) ==
    /\ \E j \in 1..Len(trace) : trace[j] = a
    /\ \E k \in 1..Len(trace) : trace[k] = b
    /\ \A j, k \in 1..Len(trace) : (trace[j] = a /\ trace[k] = b) => j < k

\* the position the tick's block started from, moved along the heading the
\* tick ended with
IntegratedFromNewHeading ==
    LET f == Forward(c_out.yaw)
    IN  <<c_pos.x + f[1] * StepLength(c_agent, c_in),
          c_pos.z + f[2] * StepLength(c_agent, c_in)>>

\* C29: in a tick of the player or the enemy the heading is updated first, the
\* position is integrated along the updated heading, the integrated position
\* goes through the push-out, the enemy's pushed-out position goes through the
\* separation from its target, and the committed position is the outcome of
\* that chain: an integrated position is never committed unresolved.
C29_TickOrdering ==
    TickDone =>
        /\ RanBefore(c_out.trace, "turn", "integrate")
        /\ RanBefore(c_out.trace, "integrate", "resolve")
        /\ RanBefore(c_out.trace, "resolve", "commit")
        /\ c_agent = "enemy" =>
              /\ RanBefore(c_out.trace, "resolve", "separate")
              /\ RanBefore(c_out.trace, "separate", "commit")
        /\ c_out.yaw = TurnedYaw(c_agent, Working(c_yaw, c_pos), c_in)
        /\ c_point = IntegratedFromNewHeading
        /\ c_result = ResolveTwice(c_point, c_colliders, c_radius)
        /\ LET pushed == Vec(c_result[1], c_out.integrated.y, c_result[2])
           IN  c_out.pos = IF c_agent = "enemy"
                           THEN SeparateFromTarget(pushed, c_in.target,
                                                   radius + targetRadius, SEPARATE_EPS)
                           ELSE pushed

\* the enemy turned, stepped into a wall, was pushed out of it and then away
\* from its target
C29_Witness ==
    /\ TickDone
    /\ c_agent = "enemy"
    /\ c_out.yaw # c_yaw
    /\ c_point # <<c_pos.x, c_pos.z>>
    /\ c_result # c_point
    /\ <<c_out.pos.x, c_out.pos.z>> # c_result

\* the number of times stage ran in the block
Count(trace, stage) == Cardinality({ k \in 1..Len(trace) : trace[k] = stage })

\* a block that moves an agent against the colliders has run to its commit
Moved ==
    /\ c_pc = "done"
    /\ c_agent \in {"player", "enemy", "knockback"}
    /\ Count(c_out.trace, "commit") > 0

\* C30: every block that moves an agent (the player's tick, the enemy's tick,
\* the enemy's knockback) applies the sweep over all colliders exactly twice
\* before it commits the position.
C30_TwoSweepsOnEveryPath ==
    Moved =>
        /\ Count(c_out.trace, "resolve") = 2
        /\ c_result = ResolveTwice(c_point, c_colliders, c_radius)

\* the path generator ran out of decisions before the path was long enough
Exhausted == g_pc \in {"path", "break"} /\ g_stack = << >> /\ Len(g_path) < g_target

\* the decision stack of the path generator holds one entry per cell of the
\* path while the loop runs, so it never empties before the path is complete
PathNeverExhausted ==
    g_pc = "path" => (Len(g_stack) = Len(g_path) /\ ~Exhausted)

\* the path generator never warns that the path is short
PathNeverShort ==
    /\ g_pc # "break"
    /\ \A k \in 1..Len(g_warnings) : g_warnings[k] # "Failed to build full path"
    /\ g_pc = "built" => Len(g_path) = g_target

\* C31: after an Update of the enemy its position has y = 0, whatever the y of
\* the target position.
C31_EnemyOnGround ==
    (c_pc = "done" /\ c_agent = "enemy") => c_out.pos.y = 0

\* a turn has been computed
Turned == c_pc = "done" /\ c_agent = "turn"

\* the yaw of the direction to the target, as Update hands it to _turnTowards
DesiredYaw ==
    IF c_in.target.x = c_pos.x /\ c_in.target.z = c_pos.z
    THEN 0
    ELSE Atan2(c_in.target.x - c_pos.x, c_in.target.z - c_pos.z)

\* what is left to turn, as an angle of at most half a turn either way
Remaining(yaw) ==
    LET m == (DesiredYaw - yaw) % FULL_TURN
    IN  IF m > HALF_TURN THEN FULL_TURN - m ELSE m

\* C32: in a tick the heading changes by clamp(w, -turnSpeed*dt, turnSpeed*dt),
\* w being desired minus current yaw brought within half a turn; the change is
\* never more than turnSpeed*dt and is made the shorter way round: what is left
\* to turn shrinks by exactly the size of the change. (A difference of exactly
\* minus half a turn stands for the double just inside -pi and stays negative.)
C32_TurnClamped ==
    Turned =>
        LET change == c_out.yaw - c_yaw
            maxStep == turnSpeed * c_in.dt
        IN  /\ \E w \in (0 - HALF_TURN)..HALF_TURN :
                  /\ (w - (DesiredYaw - c_yaw)) % FULL_TURN = 0
                  /\ w = 0 - HALF_TURN => DesiredYaw - c_yaw < 0
                  /\ change = IF w > maxStep THEN maxStep
                              ELSE IF w < 0 - maxStep THEN 0 - maxStep
                              ELSE w
            /\ change <= maxStep
            /\ 0 - maxStep <= change
            /\ Remaining(c_out.yaw) = Remaining(c_yaw) - (IF change < 0 THEN 0 - change ELSE change)

\* a heading more than half a turn behind the desired one: the turn goes
\* backwards through the wrap, and is cut to turnSpeed * dt
C32_Witness ==
    /\ Turned
    /\ DesiredYaw - c_yaw > HALF_TURN
    /\ c_out.yaw - c_yaw = 0 - turnSpeed * c_in.dt
    /\ Remaining(c_out.yaw) > 0

\* the path generator has marked the openings of its path
PathBuilt == g_pc = "built"

\* the direction of the step from cell a to the adjacent cell b
StepDir(a, b) == CHOOSE d \in Dirs : Step(a, d) = b

\* C33: every two consecutive rooms of the generated path are connected,
\* whatever the direction of the step: the opening is recorded on both rooms
\* and the wall on their shared edge has a doorway.
C33_PathConnected ==
    PathBuilt =>
        \A k \in 1..(Len(g_path) - 1) :
            LET a == g_path[k]
                b == g_path[k + 1]
                d == StepDir(a, b)
            IN  /\ g_openings[a][d]
                /\ g_openings[b][DIRS[d].opposite]
                /\ PathDoorway(g_openings, Used(g_path), a, b)

\* C34: with the default 12 rooms every generated maze has a built room
\* exactly 3 openings from room 0 (the spawn room), and the room found 3 steps
\* from the spawn room for the enemy is exactly 3 openings away.
C34_RoomThreeAway ==
    (pc = "built" /\ nRooms = DEFAULT_ROOMS) =>
        /\ Len(rooms) = DEFAULT_ROOMS
        /\ \E k \in 1..Len(rooms) : GraphDistance(1, k) = 3
        /\ (Asked("roomAtGraphDistance") /\ q_call.args = <<1, 3>>)
              => GraphDistance(1, q_result) = 3

\* the enemy's room has been asked for in a maze of the default size, and is
\* not a neighbour of a neighbour of the spawn room's neighbours by chance of
\* the grid alone: it is three openings but only one cell away
C34_Witness ==
    /\ pc = "built"
    /\ nRooms = DEFAULT_ROOMS
    /\ Asked("roomAtGraphDistance")
    /\ q_call.args = <<1, 3>>
    /\ GraphDistance(1, q_result) = 3
    /\ \E d \in Dirs : Neighbour(RoomCell(rooms, 1), d) = RoomCell(rooms, q_result)

\* room s is one of the rooms whose centre is nearest to pos in the XZ plane
NearestTo(pos, s) ==
    \A m \in 1..Len(rooms) :
        (rooms[s].cx - pos[1]) * (rooms[s].cx - pos[1])
          + (rooms[s].cz - pos[2]) * (rooms[s].cz - pos[2])
        <= (rooms[m].cx - pos[1]) * (rooms[m].cx - pos[1])
          + (rooms[m].cz - pos[2]) * (rooms[m].cz - pos[2])

\* C35: farthestRoomFrom(worldPos) returns the centre of a room whose graph
\* distance from the room nearest to worldPos is the largest among the rooms
\* reachable from it, and of the rooms at that distance the one with the
\* lowest index.
C35_FarthestRoom ==
    (Asked("farthestRoomFrom") /\ Len(rooms) > 0) =>
        \E s, k \in 1..Len(rooms) :
            /\ NearestTo(q_call.args, s)
            /\ q_result = [cx |-> rooms[k].cx, cz |-> rooms[k].cz]
            /\ GraphDistance(s, k) < Infinity
            /\ \A m \in 1..Len(rooms) :
                  GraphDistance(s, m) < Infinity =>
                      /\ GraphDistance(s, m) <= GraphDistance(s, k)
                      /\ GraphDistance(s, m) = GraphDistance(s, k) => k <= m

\* a maze of the default size asked from a point nearest to a room other than
\* the first, with two rooms tied for the farthest
C35_Witness ==
    /\ Asked("farthestRoomFrom")
    /\ Len(rooms) = DEFAULT_ROOMS
    /\ ~NearestTo(q_call.args, 1)
    /\ \E s, k, m \in 1..Len(rooms) :
          /\ NearestTo(q_call.args, s)
          /\ q_result = [cx |-> rooms[k].cx, cz |-> rooms[k].cz]
          /\ m > k
          /\ GraphDistance(s, m) = GraphDistance(s, k)
          /\ \A n \in 1..Len(rooms) : GraphDistance(s, n) <= GraphDistance(s, k)

\* C36: whatever the ticks and the damage calls on the enemy, an onHitPlayer
\* call comes at least attackCooldown and at least attackDuration of enemy
\* time after the one before it (attackStartTime is the time of the last one).
C36_AttackSpacing ==
    [][ e_hitNow' =>
            /\ e_time' - e_fsm.attackStartTime >= attackCooldown
            /\ e_time' - e_fsm.attackStartTime >= e_attackDuration' ]_vars

\* a second hit, dealt on entering attack from chase after the enemy was
\* damaged during its first attack
C36_Witness ==
    /\ e_hitNow
    /\ ~e_entry.retrigger
    /\ p_hp = PLAYER_HP - 2 * attackDamage
    /\ e_hp < hpMax

\* the game has ended, won or lost
Ended == m_won \/ m_lost

\* C37: the end of the game is absorbing: gameWon and gameLost are never both
\* true; once either is true neither changes and no _Step runs any more; and
\* from then on at most one frame is rendered, after which none is requested.
C37_TerminalAbsorbing ==
    [][ /\ ~(m_won' /\ m_lost')
        /\ Ended => (m_won' = m_won /\ m_lost' = m_lost /\ m_steps' = m_steps)
        /\ Ended' => Cardinality(m_pending') + m_late' <= 1 ]_vars

\* the player died of the enemy's hit inside a step, and the frame that step
\* had requested was rendered as the last one
C37_Witness ==
    /\ m_lost
    /\ hpCalls = << <<0, PLAYER_HP>> >>
    /\ m_steps > 0
    /\ m_late = 1
    /\ m_pending = {}

\* the doorways of the built maze: pairs of built rooms j < k joined by an
\* opening
RoomDoorways ==
    { p \in (1..Len(rooms)) \X (1..Len(rooms)) :
        p[1] < p[2] /\ Linked(RoomCell(rooms, p[1]), RoomCell(rooms, p[2])) }

\* room k has an opening of its own towards a built room earlier in the
\* visitation order
OpensToEarlier(k) ==
    \E j \in 1..(k - 1) : \E d \in Dirs :
        /\ openings[RoomCell(rooms, k)][d]
        /\ Neighbour(RoomCell(rooms, k), d) = RoomCell(rooms, j)

\* C38: in every generated maze each built room other than room 0 has an
\* opening to a built room that precedes it in visitation order, and the
\* built rooms with their openings form a tree: exactly R - 1 doorways and
\* every room reachable from room 0.
C38_BuiltRoomsFormTree ==
    built =>
        /\ \A k \in 2..Len(rooms) : OpensToEarlier(k)
        /\ Cardinality(RoomDoorways) = Len(rooms) - 1
        /\ ReachVia({RoomCell(rooms, 1)}, openings) = RoomCells

\* a truncated maze of five rooms or more in which some room opens to an
\* earlier room that is not the one visited just before it
C38_Witness ==
    /\ TruncationHappened
    /\ Len(rooms) >= 5
    /\ \E k \in 3..Len(rooms) :
          /\ OpensToEarlier(k)
          /\ ~Linked(RoomCell(rooms, k), RoomCell(rooms, k - 1))

\* C39: a damage(n) call with n at least the agent's current HP, not
\* suppressed by invulnerability, brings that agent's HP to 0, for the enemy
\* and for the player, also when n is 2^31 or more.
C39_LethalDamageKills ==
    [][ /\ \A n \in DamageInputs : \A dirOk \in BOOLEAN :
              (Damage(n, dirOk) /\ n >= e_hp /\ ~Invulnerable(e_time, e_invulnEndTime))
                  => e_hp' = 0
        /\ \A w \in WideInputs : \A dirOk \in BOOLEAN :
              (Damage(ToInt32Wide(w), dirOk) /\ ~Invulnerable(e_time, e_invulnEndTime))
                  => e_hp' = 0
        /\ \A n \in DamageInputs : (PlayerDamage(n) /\ n >= p_hp) => p_hp' = 0
        /\ \A w \in WideInputs : PlayerDamage(ToInt32Wide(w)) => p_hp' = 0 ]_vars

\* the last step was an Update that began an attack from the attack state
AttackedAgain == e_hitNow /\ e_entry.retrigger

\* C40: with ticks occurring for ever, the attack clip loaded, the target
\* kept within attackExitRange and the enemy damaged only finitely often, an
\* enemy in the attack state eventually starts another attack: it never
\* stays in attack for ever without attacking.
C40_AttackRecurs == (e_fsm.state = "attack" /\ e_attackClip) ~> AttackedAgain

\* a third attack in a row, later than MaxTime after construction
C40_Witness ==
    /\ AttackedAgain
    /\ e_time = MaxTime
    /\ p_hp <= PLAYER_HP - 3 * attackDamage

====
